---------------------------- MODULE Spec2Model ----------------------------
(***************************************************************************)
(* dbtenv: version parsing, ordering, constraint matching and the          *)
(* get_version resolution chain.                                           *)
(*                                                                         *)
(* Python strings are sequences of one-character strings, compared by code *)
(* point as Python compares str.  Python's None (and the empty string,     *)
(* which the code treats the same way in every truth test) is the empty    *)
(* sequence.                                                               *)
(***************************************************************************)
EXTENDS Integers, Sequences, FiniteSets, TLC

(***************************************************************************)
(* Characters and Python str operations                                    *)
(***************************************************************************)
None == << >>

Digits == <<"0", "1", "2", "3", "4", "5", "6", "7", "8", "9">>

Lower == <<"a", "b", "c", "d", "e", "f", "g", "h", "i", "j", "k", "l", "m",
           "n", "o", "p", "q", "r", "s", "t", "u", "v", "w", "x", "y", "z">>

Range(f) == {f[i] : i \in DOMAIN f}

DigitSet == Range(Digits)

LowerSet == Range(Lower)

IsDigit(c) == c \in DigitSet

IsLower(c) == c \in LowerSet

\* The code points of the characters the texts use.
CharCode ==
    [c \in DigitSet |-> 47 + (CHOOSE i \in DOMAIN Digits : Digits[i] = c)]
    @@ [c \in LowerSet |-> 96 + (CHOOSE i \in DOMAIN Lower : Lower[i] = c)]
    @@ ("\n" :> 10) @@ (" " :> 32) @@ ("!" :> 33) @@ ("+" :> 43)
    @@ ("-" :> 45) @@ ("." :> 46) @@ ("/" :> 47) @@ ("<" :> 60)
    @@ ("=" :> 61) @@ (">" :> 62) @@ ("N" :> 78) @@ ("_" :> 95)
    @@ ("~" :> 126)

\* ord(c)
Ord(c) == CharCode[c]

\* s[i:] with a 1-based index.
Drop(s, i) == SubSeq(s, i, Len(s))

\* s[:n]
Take(s, n) == SubSeq(s, 1, n)

\* str.startswith
StartsWith(s, prefix) ==
    /\ Len(prefix) <= Len(s)
    /\ Take(s, Len(prefix)) = prefix

\* str.__lt__: lexicographic comparison by code point; a proper prefix is less.
RECURSIVE StrLess(_, _)
StrLess(s, t) ==
    IF t = << >> THEN FALSE
    ELSE IF s = << >> THEN TRUE
    ELSE IF s[1] = t[1] THEN StrLess(Tail(s), Tail(t))
    ELSE Ord(s[1]) < Ord(t[1])

IsSpace(c) == c \in {" ", "\n"}

\* str.strip()
RECURSIVE Strip(_)
Strip(s) ==
    IF s = << >> THEN s
    ELSE IF IsSpace(s[1]) THEN Strip(Tail(s))
    ELSE IF IsSpace(s[Len(s)]) THEN Strip(Take(s, Len(s) - 1))
    ELSE s

\* str.replace(old, ""): every non-overlapping occurrence removed, left to right.
RECURSIVE RemoveAll(_, _)
RemoveAll(s, old) ==
    IF s = << >> THEN s
    ELSE IF StartsWith(s, old) THEN RemoveAll(Drop(s, Len(old) + 1), old)
    ELSE <<s[1]>> \o RemoveAll(Tail(s), old)

\* int(s) for a run of digits.
RECURSIVE ParseInt(_)
ParseInt(s) ==
    IF s = << >> THEN 0
    ELSE 10 * ParseInt(Take(s, Len(s) - 1)) + (Ord(s[Len(s)]) - 48)

\* The length of the run of digits of s that starts at index i (0 when none).
RECURSIVE DigitRun(_, _)
DigitRun(s, i) ==
    IF i > Len(s) \/ ~IsDigit(s[i]) THEN 0 ELSE 1 + DigitRun(s, i + 1)

(***************************************************************************)
(* The regular expressions of the code                                     *)
(***************************************************************************)
DbtPrefix == <<"d", "b", "t", "-">>

\* The indexes i at which "==" starts with "dbt-" and one more character
\* before it and one character after it: the ways ^(dbt-.+)==(.+)$ can match.
SpecifierSplits(value) ==
    {i \in 6..(Len(value) - 2) :
        /\ StartsWith(value, DbtPrefix)
        /\ value[i] = "="
        /\ value[i + 1] = "="}

\* bool(re.search(r"^(dbt-.+)==(.+)$", value))
IsPipSpecifier(value) == SpecifierSplits(value) # {}

\* The groups of re.match(r"^(dbt-.+)==(.+)$", pip_specifier): the first group
\* is greedy, so the split is at the last "==".
SpecifierGroups(pip_specifier) ==
    LET i == CHOOSE k \in SpecifierSplits(pip_specifier) :
                 \A j \in SpecifierSplits(pip_specifier) : j <= k
    IN  [name |-> Take(pip_specifier, i - 1), version |-> Drop(pip_specifier, i + 2)]

\* bool(re.search(r"^[0-9\.]+[a-z0-9]*$", value))
IsBareVersion(value) ==
    \E k \in 1..Len(value) :
        /\ \A i \in 1..k : IsDigit(value[i]) \/ value[i] = "."
        /\ \A i \in (k + 1)..Len(value) : IsLower(value[i]) \/ IsDigit(value[i])

\* re.match(r'(?P<version>\d+\.\d+\.\d+)(-?(?P<prerelease>[a-z].*))?', text):
\* matched, the version group and the prerelease group (None when it took no
\* part in the match).  re.match anchors at the start only.
VersionMatch(text) ==
    LET d1 == DigitRun(text, 1)
        p2 == d1 + 2
        d2 == DigitRun(text, p2)
        p3 == p2 + d2 + 1
        d3 == DigitRun(text, p3)
        e  == p3 + d3 - 1
        ok == /\ d1 > 0
              /\ Len(text) >= d1 + 1 /\ text[d1 + 1] = "."
              /\ d2 > 0
              /\ Len(text) >= p2 + d2 /\ text[p2 + d2] = "."
              /\ d3 > 0
        pre == IF ~ok THEN None
               ELSE IF Len(text) >= e + 2 /\ text[e + 1] = "-" /\ IsLower(text[e + 2])
                    THEN Drop(text, e + 2)
               ELSE IF Len(text) >= e + 1 /\ IsLower(text[e + 1])
                    THEN Drop(text, e + 1)
               ELSE None
    IN  [matched    |-> ok,
         version    |-> IF ok THEN Take(text, e) ELSE None,
         prerelease |-> pre]

(***************************************************************************)
(* Version, the adapter-aware class (dbtenv/dbtenv/__init__.py)            *)
(***************************************************************************)
\* f"{adapter_type}": None renders as the text None.
FStr(x) == IF x = None THEN <<"N", "o", "n", "e">> ELSE x

\* An Optional[Version] that is None.  A Version object is always truthy and
\* its name always starts with dbt-, so the empty name marks None.
NoVersion ==
    [name |-> None, adapter_type |-> None, pip_specifier |-> None,
     pypi_version |-> None, is_semantic |-> FALSE, is_stable |-> FALSE,
     major_minor_patch |-> None, prerelease |-> None,
     source |-> None, source_description |-> None]

\* Version.__init__(pip_specifier, adapter_type, version, source,
\* source_description).  pip_specifier, when given, matches ^(dbt-.+)==(.+)$
\* (every caller tests it first).
VersionInit(pip_specifier, adapter_type, version, source, source_description) ==
    LET g     == SpecifierGroups(pip_specifier)
        name  == IF pip_specifier # None THEN g.name
                 ELSE DbtPrefix \o FStr(adapter_type)
        raw   == IF pip_specifier # None THEN g.version ELSE version
        m     == VersionMatch(raw)
        desc  == IF source # None /\ source_description = None
                 THEN <<"set by ">> \o source
                 ELSE source_description
    IN  [name              |-> name,
         adapter_type      |-> IF pip_specifier # None
                               THEN RemoveAll(name, DbtPrefix)
                               ELSE adapter_type,
         pip_specifier     |-> IF pip_specifier # None THEN pip_specifier
                               ELSE name \o <<"=", "=">> \o raw,
         pypi_version      |-> IF m.matched /\ m.prerelease # None
                               THEN m.version \o m.prerelease
                               ELSE raw,
         is_semantic       |-> m.matched,
         is_stable         |-> m.matched /\ m.prerelease = None,
         major_minor_patch |-> m.version,
         prerelease        |-> m.prerelease,
         source            |-> source,
         source_description |-> desc]

\* Version(pip_specifier=...)
VersionFromSpecifier(pip_specifier, source_description) ==
    VersionInit(pip_specifier, None, None, None, source_description)

\* Version(adapter_type=..., version=...)
VersionFromAdapter(adapter_type, version, source_description) ==
    VersionInit(None, adapter_type, version, None, source_description)

\* The source property's setter.
SetSource(v, source) ==
    [v EXCEPT !.source = source,
              !.source_description =
                  IF source # None /\ v.source_description = None
                  THEN <<"set by ">> \o source
                  ELSE v.source_description]

\* Version._cmp: the package name first, then the whole pypi_version text,
\* both as Python compares str.
VersionCmp(self, other) ==
    IF StrLess(self.name, other.name) THEN -1
    ELSE IF StrLess(other.name, self.name) THEN 1
    ELSE IF self.pypi_version = other.pypi_version THEN 0
    ELSE IF StrLess(self.pypi_version, other.pypi_version) THEN -1
    ELSE 1

\* LooseVersion's rich comparisons, each a test of _cmp's result.
VersionEq(a, b) == VersionCmp(a, b) = 0
VersionLt(a, b) == VersionCmp(a, b) < 0
VersionLe(a, b) == VersionCmp(a, b) <= 0
VersionGt(a, b) == VersionCmp(a, b) > 0
VersionGe(a, b) == VersionCmp(a, b) >= 0

(***************************************************************************)
(* Version, the LooseVersion class with the string fallback                *)
(* (dbtenv/__init__.py)                                                    *)
(***************************************************************************)
IsOther(c) == ~IsDigit(c) /\ ~IsLower(c) /\ c # "."

\* The length of the run of lower-case letters (kind "a") or of characters
\* that component_re does not match (kind "o") starting at index i.
RECURSIVE ClassRun(_, _, _)
ClassRun(s, i, kind) ==
    IF i > Len(s) THEN 0
    ELSE IF kind = "a" /\ IsLower(s[i]) THEN 1 + ClassRun(s, i + 1, kind)
    ELSE IF kind = "o" /\ IsOther(s[i]) THEN 1 + ClassRun(s, i + 1, kind)
    ELSE 0

\* LooseVersion.parse: component_re.split(vstring) without the empty pieces
\* and the dots, runs of digits turned into int.
RECURSIVE LooseParse(_)
LooseParse(s) ==
    IF s = << >> THEN << >>
    ELSE IF s[1] = "." THEN LooseParse(Tail(s))
    ELSE IF IsDigit(s[1])
         THEN LET n == DigitRun(s, 1)
              IN  <<[int |-> TRUE, n |-> ParseInt(Take(s, n)), s |-> << >>]>>
                  \o LooseParse(Drop(s, n + 1))
    ELSE LET n == ClassRun(s, 1, IF IsLower(s[1]) THEN "a" ELSE "o")
         IN  <<[int |-> FALSE, n |-> 0, s |-> Take(s, n)]>>
             \o LooseParse(Drop(s, n + 1))

\* list.__lt__ over the parsed components: "lt", "gt", or "TypeError" when
\* the first pair of unequal components is an int and a str.
RECURSIVE ListCmp(_, _)
ListCmp(x, y) ==
    IF x = << >> /\ y = << >> THEN "eq"
    ELSE IF x = << >> THEN "lt"
    ELSE IF y = << >> THEN "gt"
    ELSE IF x[1] = y[1] THEN ListCmp(Tail(x), Tail(y))
    ELSE IF x[1].int # y[1].int THEN "TypeError"
    ELSE IF x[1].int THEN (IF x[1].n < y[1].n THEN "lt" ELSE "gt")
    ELSE IF StrLess(x[1].s, y[1].s) THEN "lt" ELSE "gt"

\* Version.__init__(version, source, source_description) of the older class.
LooseVersionInit(version, source, source_description) ==
    LET raw  == Strip(version)
        m    == VersionMatch(raw)
        pypi == IF m.matched /\ m.prerelease # None
                THEN m.version \o m.prerelease ELSE raw
    IN  [raw_version      |-> raw,
         pypi_version     |-> pypi,
         homebrew_version |-> IF m.matched /\ m.prerelease # None
                              THEN m.version \o <<"-">> \o m.prerelease ELSE raw,
         is_semantic      |-> m.matched,
         is_stable        |-> m.matched /\ m.prerelease = None,
         version          |-> LooseParse(pypi),
         source           |-> source,
         source_description |-> IF source # None /\ source_description = None
                                THEN <<"set by ">> \o source
                                ELSE source_description]

\* Version._str_cmp
StrCmp(self, other) ==
    IF self.pypi_version = other THEN 0
    ELSE IF StrLess(self.pypi_version, other) THEN -1
    ELSE 1

\* Version._cmp of the older class: LooseVersion._cmp, and the comparison of
\* the whole pypi_version texts when that raises TypeError.
LooseVersionCmp(self, other) ==
    LET c == ListCmp(self.version, other.version)
    IN  IF c = "TypeError" THEN StrCmp(self, other.pypi_version)
        ELSE IF c = "eq" THEN 0
        ELSE IF c = "lt" THEN -1
        ELSE 1

(***************************************************************************)
(* Version requirements and the maximum searches (dbtenv/dbtenv/version.py)*)
(***************************************************************************)
\* re.match(r'(?P<operator>[<>=]=?)?(?P<version>.+)', requirement): the
\* operator group takes as much as it can while one character is left for the
\* version group.  matched is FALSE for the empty text only.
RequirementMatch(requirement) ==
    LET n   == Len(requirement)
        op1 == n >= 1 /\ requirement[1] \in {"<", ">", "="}
        k   == IF op1 /\ n >= 3 /\ requirement[2] = "=" THEN 2
               ELSE IF op1 /\ n >= 2 THEN 1
               ELSE 0
    IN  [matched  |-> n >= 1,
         operator |-> Take(requirement, k),
         version  |-> Drop(requirement, k + 1)]

\* VersionRequirement.__init__(adapter_type, requirement, source), for a text
\* the regular expression matches.
VersionRequirementInit(adapter_type, requirement, source) ==
    LET m == RequirementMatch(requirement)
    IN  [requirement |-> requirement,
         operator    |-> IF m.operator # None THEN m.operator ELSE <<"=", "=">>,
         version     |-> VersionFromAdapter(adapter_type, m.version, None),
         source      |-> source]

\* An evaluation with the operands exchanged: the requirement's version
\* compared with the candidate.
IsCompatibleWithExchanged(self, version) ==
    IF self.operator = <<"<">> THEN VersionLt(self.version, version)
    ELSE IF self.operator = <<"<", "=">> THEN VersionLe(self.version, version)
    ELSE IF self.operator = <<">">> THEN VersionGt(self.version, version)
    ELSE IF self.operator = <<">", "=">> THEN VersionGe(self.version, version)
    ELSE VersionEq(self.version, version)

\* VersionRequirement.is_compatible_with(version)
IsCompatibleWith(self, version) ==
    IF self.operator = <<"<">> THEN VersionLt(version, self.version)
    ELSE IF self.operator = <<"<", "=">> THEN VersionLe(version, self.version)
    ELSE IF self.operator = <<">">> THEN VersionGt(version, self.version)
    ELSE IF self.operator = <<">", "=">> THEN VersionGe(version, self.version)
    ELSE VersionEq(version, self.version)

\* try_get_project_version_requirements(project_file, adapter_type) for the
\* pieces of require-dbt-version (already split at the commas), each stripped.
\* A piece the constructor cannot parse raises inside the try block: the
\* error is logged and the function returns the empty list.  The list is
\* modelled as a set: the callers only test every member.
TryGetProjectVersionRequirements(pieces, project_file, adapter_type) ==
    IF \E r \in pieces : ~RequirementMatch(Strip(r)).matched THEN {}
    ELSE {VersionRequirementInit(adapter_type, Strip(r), project_file) : r \in pieces}

\* get_max_version(versions): the versions sorted(...)[-1] can return.  The
\* sort is stable, so among the members that compare equal the one listed last
\* wins; the listing order is the directory's or the index's, so each of them
\* is possible.  The empty set stands for the IndexError of [][-1].
GetMaxVersion(versions) ==
    LET stable_versions == {v \in versions : v.is_stable}
        pool == IF stable_versions # {} THEN stable_versions ELSE versions
    IN  {v \in pool : \A w \in pool : VersionLe(w, v)}

\* try_get_max_compatible_version(versions, requirements): the possible
\* results, NoVersion for None.
TryGetMaxCompatibleVersion(versions, requirements) ==
    LET compatible_versions ==
            {v \in versions :
                v.is_semantic /\ \A r \in requirements : IsCompatibleWith(r, v)}
    IN  IF compatible_versions # {} THEN GetMaxVersion(compatible_versions)
        ELSE {NoVersion}

(***************************************************************************)
(* Paths (os.path) and Environment.find_file_along_working_path            *)
(***************************************************************************)
LOCAL_VERSION_FILE ==
    <<".", "d", "b", "t", "_", "v", "e", "r", "s", "i", "o", "n">>

PROJECT_FILE_NAME ==
    <<"d", "b", "t", "_", "p", "r", "o", "j", "e", "c", "t", ".", "y", "m", "l">>

\* os.path.expanduser(GLOBAL_VERSION_FILE); the home directory is written ~.
GlobalVersionFile == <<"~", "/", ".", "d", "b", "t", "/", "v", "e", "r", "s", "i", "o", "n">>

\* os.path.join(os.path.expanduser("~"), ".dbt", "profiles.yml")
ProfilesFile ==
    <<"~", "/", ".", "d", "b", "t", "/", "p", "r", "o", "f", "i", "l", "e", "s", ".", "y", "m", "l">>

\* os.path.join(directory, name)
PathJoin(directory, name) ==
    IF directory[Len(directory)] = "/" THEN directory \o name
    ELSE directory \o <<"/">> \o name

\* The index of the last "/" of an absolute path.
LastSlash(path) == CHOOSE i \in 1..Len(path) :
    path[i] = "/" /\ \A j \in (i + 1)..Len(path) : path[j] # "/"

\* os.path.dirname(path) for an absolute path without doubled slashes.
DirName(path) == IF LastSlash(path) = 1 THEN <<"/">> ELSE Take(path, LastSlash(path) - 1)

\* os.path.basename(path)
BaseName(path) == Drop(path, LastSlash(path) + 1)

\* The directory k levels below the root; every level is named d.
RECURSIVE Dir(_)
Dir(k) == IF k = 0 THEN <<"/">> ELSE PathJoin(Dir(k - 1), <<"d">>)

\* Environment.find_file_along_working_path(file_name), from search_dir up to
\* the root; files is the set of paths os.path.isfile accepts.
RECURSIVE FindFileFrom(_, _, _)
FindFileFrom(search_dir, file_name, files) ==
    IF PathJoin(search_dir, file_name) \in files THEN PathJoin(search_dir, file_name)
    ELSE IF DirName(search_dir) = search_dir THEN None
    ELSE FindFileFrom(DirName(search_dir), file_name, files)

(***************************************************************************)
(* Bounds and the texts the environment can hold                           *)
(***************************************************************************)
\* The working directory is Dir(WdDepth).
WdDepth == 2

\* The most entries a version pool (installed or installable) holds.
MaxPool == 2

\* The most pieces require-dbt-version holds.
MaxReqs == 2

\* The adapter type profiles.yml can give for the project's target.
AdapterTypes == {<<"x">>}

\* Values of the DBT_VERSION variable: a bare version, a pip specifier (of
\* another adapter), a hyphenated prerelease and free text.
ShellValues ==
    {<<"2", ".", "0", ".", "0">>,
     <<"d", "b", "t", "-", "y", "=", "=", "2", ".", "0", ".", "0">>,
     <<"1", ".", "2", ".", "0", "-", "r", "c", "1">>}

\* First lines of a version file, as readline() returns them.
MarkerLines ==
    {<<"1", ".", "1", "0", ".", "0", "\n">>,
     <<"d", "b", "t", "-", "x", "=", "=", "1", ".", "9", ".", "0", "\n">>,
     <<"l", "a", "t", "e", "s", "t", "\n">>}

\* Version texts of the directories under venvs_directory and of the
\* releases of the package index.
PoolTexts ==
    {<<"1", ".", "9", ".", "0">>,
     <<"1", ".", "1", "0", ".", "0">>,
     <<"2", ".", "0", ".", "0", "r", "c", "1">>,
     <<"1", ".", "0">>}

\* Pieces of require-dbt-version.
RequirementTexts ==
    {<<">", "=", "1", ".", "9", ".", "0">>,
     <<"<", "2", ".", "0", ".", "0">>,
     <<">", "=", "2", ".", "0", ".", "0">>,
     << >>}

SubsetsUpTo(S, n) == {T \in SUBSET S : Cardinality(T) <= n}

(***************************************************************************)
(* State                                                                   *)
(***************************************************************************)
VARIABLES
    env_vars,            \* DBT_VERSION in env.env_vars: [set, value]
    files,               \* the paths os.path.isfile accepts
    project_file,        \* env.project_file
    profile_type,        \* the adapter type profiles.yml gives, or None
    pc,                  \* the position in get_version
    adapter_type,        \* get_version's adapter_type
    shell_version,
    local_version,
    global_version,
    preferred_version,
    version_file,        \* the local version file found, or None
    lines_read,          \* the file contents read: the first lines of the
                         \* version files (None when not read) and the pieces
                         \* of require-dbt-version
    requirements,        \* project_version_requirements
    installed_versions,  \* the list get_installed_versions returned
    installable_versions,\* the list get_installable_versions returned
    pools_read,          \* which of the two pools have been listed
    result,              \* how get_version ended
    fn_pc,               \* the position of the pure-function harness
    fn_in,               \* its inputs
    fn_obj,              \* the objects constructed from them
    fn_out               \* its results

vars == <<env_vars, files, project_file, profile_type, pc, adapter_type,
          shell_version, local_version, global_version, preferred_version,
          version_file, lines_read, requirements, installed_versions,
          installable_versions, pools_read, result,
          fn_pc, fn_in, fn_obj, fn_out>>

resolve_vars == <<env_vars, files, project_file, profile_type, pc, adapter_type,
                  shell_version, local_version, global_version,
                  preferred_version, version_file, lines_read, requirements,
                  installed_versions, installable_versions, pools_read, result>>

fn_vars == <<fn_pc, fn_in, fn_obj, fn_out>>

\* env.working_directory
WorkingDirectory == Dir(WdDepth)

\* env.project_directory
ProjectDirectory == IF project_file # None THEN DirName(project_file) ELSE None

\* The files a run can find: the local version file and the project file in
\* each directory of the working path, the global version file and
\* profiles.yml.
CandidateFiles ==
    {PathJoin(Dir(k), LOCAL_VERSION_FILE) : k \in 0..WdDepth}
    \cup {PathJoin(Dir(k), PROJECT_FILE_NAME) : k \in 0..WdDepth}
    \cup {GlobalVersionFile, ProfilesFile}

Running == [status |-> "running", version |-> NoVersion, error |-> "", stage |-> ""]

Returned(v, stage) ==
    [status |-> "returned", version |-> v, error |-> "", stage |-> stage]

ReturnedNone(stage) ==
    [status |-> "none", version |-> NoVersion, error |-> "", stage |-> stage]

Raised(error, stage) ==
    [status |-> "raised", version |-> NoVersion, error |-> error, stage |-> stage]

FnIdle ==
    /\ fn_pc = "idle"
    /\ fn_in = << >>
    /\ fn_obj = << >>
    /\ fn_out = << >>

ResolveIdle ==
    /\ env_vars = [set |-> FALSE, value |-> None]
    /\ files = {}
    /\ project_file = None
    /\ profile_type = None
    /\ pc = "idle"
    /\ adapter_type = None
    /\ shell_version = NoVersion
    /\ local_version = NoVersion
    /\ global_version = NoVersion
    /\ preferred_version = NoVersion
    /\ version_file = None
    /\ lines_read = [local |-> None, global |-> None,
                     requirements |-> [read |-> FALSE, pieces |-> {}]]
    /\ requirements = {}
    /\ installed_versions = {}
    /\ installable_versions = {}
    /\ pools_read = {}
    /\ result = Running

\* Environment.__init__ and the state of the machine when get_version is
\* called: the project file is the nearest dbt_project.yml of the working
\* path, and only a project whose profile profiles.yml describes gives an
\* adapter type.  Every project file names its profile.
InitResolve ==
    /\ env_vars \in {[set |-> FALSE, value |-> None]}
                    \cup {[set |-> TRUE, value |-> v] : v \in ShellValues}
    /\ files \in SUBSET CandidateFiles
    /\ project_file = FindFileFrom(WorkingDirectory, PROJECT_FILE_NAME, files)
    /\ profile_type \in IF project_file = None \/ ProfilesFile \notin files
                        THEN {None}
                        ELSE {None} \cup AdapterTypes
    /\ pc = "start"
    /\ adapter_type = None
    /\ shell_version = NoVersion
    /\ local_version = NoVersion
    /\ global_version = NoVersion
    /\ preferred_version = NoVersion
    /\ version_file = None
    /\ lines_read = [local |-> None, global |-> None,
                     requirements |-> [read |-> FALSE, pieces |-> {}]]
    /\ requirements = {}
    /\ installed_versions = {}
    /\ installable_versions = {}
    /\ pools_read = {}
    /\ result = Running
    /\ FnIdle

(***************************************************************************)
(* get_version (dbtenv/dbtenv/version.py), one action per stage            *)
(***************************************************************************)
\* try_get_project_adapter_type(env.project_file): None without a project
\* file, else the type profiles.yml gives for the profile's default target;
\* open() raises FileNotFoundError when there is no profiles.yml.
TryGetProjectAdapterType ==
    IF project_file = None THEN [raised |-> FALSE, adapter_type |-> None]
    ELSE IF ProfilesFile \notin files THEN [raised |-> TRUE, adapter_type |-> None]
    ELSE [raised |-> FALSE, adapter_type |-> profile_type]

\* A reading that passes over an invalid value as though nothing were set.
ParseVersionValueSkipping(value, adapter, source_description) ==
    IF IsPipSpecifier(value)
    THEN [raised |-> FALSE, version |-> VersionFromSpecifier(value, source_description)]
    ELSE IF IsBareVersion(value) /\ adapter # None
    THEN [raised |-> FALSE,
          version |-> VersionFromAdapter(adapter, value, source_description)]
    ELSE [raised |-> FALSE, version |-> NoVersion]

\* A version text read from the DBT_VERSION variable or from a version file:
\* a pip specifier, a bare version (a Version only when the adapter type is
\* known, None otherwise), or an invalid value (DbtenvError).
ParseVersionValue(value, adapter, source_description) ==
    IF IsPipSpecifier(value)
    THEN [raised |-> FALSE, version |-> VersionFromSpecifier(value, source_description)]
    ELSE IF IsBareVersion(value)
    THEN [raised |-> FALSE,
          version |-> IF adapter # None
                      THEN VersionFromAdapter(adapter, value, source_description)
                      ELSE NoVersion]
    ELSE [raised |-> TRUE, version |-> NoVersion]

\* read_version_file(file_path, adapter_type, source_description) when the
\* file's first line is line.
ReadVersionFile(line, adapter, source_description) ==
    ParseVersionValue(Strip(line), adapter, source_description)

\* try_get_shell_version(env, adapter_type): the value is not stripped and
\* the Version carries no source description.
TryGetShellVersion(adapter) ==
    IF env_vars.set THEN ParseVersionValue(env_vars.value, adapter, None)
    ELSE [raised |-> FALSE, version |-> NoVersion]

\* Lines 311-312: the adapter type, from the project when the caller gave none.
StartStage ==
    /\ pc = "start"
    /\ LET r == TryGetProjectAdapterType
       IN  /\ adapter_type' = r.adapter_type
           /\ IF r.raised
              THEN /\ result' = Raised("FileNotFoundError", "start")
                   /\ pc' = "done"
              ELSE /\ result' = result
                   /\ pc' = "shell"
    /\ UNCHANGED fn_vars
    /\ UNCHANGED <<env_vars, files, project_file, profile_type, shell_version,
                   local_version, global_version, preferred_version,
                   version_file, lines_read, requirements, installed_versions,
                   installable_versions, pools_read>>

\* Lines 314-316: shell_version = try_get_shell_version(...); returned when set.
ShellStage ==
    /\ pc = "shell"
    /\ LET r == TryGetShellVersion(adapter_type)
       IN  /\ shell_version' = r.version
           /\ IF r.raised
              THEN /\ result' = Raised("DbtenvError", "shell")
                   /\ pc' = "done"
              ELSE IF r.version # NoVersion
              THEN /\ result' = Returned(r.version, "shell")
                   /\ pc' = "done"
              ELSE /\ result' = result
                   /\ pc' = "local"
    /\ UNCHANGED fn_vars
    /\ UNCHANGED <<env_vars, files, project_file, profile_type, adapter_type,
                   local_version, global_version, preferred_version,
                   version_file, lines_read, requirements, installed_versions,
                   installable_versions, pools_read>>

\* The test of line 319 on a local version that was found:
\* not env.project_directory or local_version.source.startswith(...).
\* "AttributeError" when source is None and startswith is called on it.
LocalGuard(v) ==
    IF ProjectDirectory = None THEN "true"
    ELSE IF v.source = None THEN "AttributeError"
    ELSE IF StartsWith(v.source, ProjectDirectory) THEN "true"
    ELSE "false"

\* Lines 318-320: the local version file found along the working path is
\* read (its first line is any of MarkerLines); the version is returned when
\* the guard holds.
LocalStage ==
    /\ pc = "local"
    /\ version_file' = FindFileFrom(WorkingDirectory, LOCAL_VERSION_FILE, files)
    /\ \E line \in MarkerLines :
          LET r == IF version_file' # None
                   THEN ReadVersionFile(line, adapter_type,
                            <<"set by local version file ">> \o version_file')
                   ELSE [raised |-> FALSE, version |-> NoVersion]
              g == IF r.version # NoVersion THEN LocalGuard(r.version) ELSE "false"
          IN  /\ local_version' = r.version
              /\ lines_read' = [lines_read EXCEPT !.local =
                                   IF version_file' # None THEN line ELSE None]
              /\ IF r.raised
                 THEN /\ result' = Raised("DbtenvError", "local")
                      /\ pc' = "done"
                 ELSE IF g = "AttributeError"
                 THEN /\ result' = Raised("AttributeError", "local")
                      /\ pc' = "done"
                 ELSE IF g = "true"
                 THEN /\ result' = Returned(r.version, "local")
                      /\ pc' = "done"
                 ELSE /\ result' = result
                      /\ pc' = "global"
    /\ UNCHANGED fn_vars
    /\ UNCHANGED <<env_vars, files, project_file, profile_type, adapter_type,
                   shell_version, global_version, preferred_version,
                   requirements, installed_versions, installable_versions,
                   pools_read>>

\* Lines 322-324: the global version file is read when it exists; the version
\* is returned when no project directory is known.
GlobalStage ==
    /\ pc = "global"
    /\ \E line \in MarkerLines :
          LET r == IF GlobalVersionFile \in files
                   THEN ReadVersionFile(line, adapter_type,
                            <<"set by global version file ">> \o GlobalVersionFile)
                   ELSE [raised |-> FALSE, version |-> NoVersion]
          IN  /\ global_version' = r.version
              /\ lines_read' = [lines_read EXCEPT !.global =
                                   IF GlobalVersionFile \in files THEN line ELSE None]
              /\ IF r.raised
                 THEN /\ result' = Raised("DbtenvError", "global")
                      /\ pc' = "done"
                 ELSE IF r.version # NoVersion /\ ProjectDirectory = None
                 THEN /\ result' = Returned(r.version, "global")
                      /\ pc' = "done"
                 ELSE /\ result' = result
                      /\ pc' = "gate"
    /\ UNCHANGED fn_vars
    /\ UNCHANGED <<env_vars, files, project_file, profile_type, adapter_type,
                   shell_version, local_version, preferred_version,
                   version_file, requirements, installed_versions,
                   installable_versions, pools_read>>

\* Lines 327-331: without an adapter type get_version returns None; else
\* preferred_version = local_version or global_version, and the project is
\* consulted when there is one.
GateStage ==
    /\ pc = "gate"
    /\ IF adapter_type = None
       THEN /\ result' = ReturnedNone("gate")
            /\ pc' = "done"
            /\ UNCHANGED preferred_version
       ELSE /\ preferred_version' = IF local_version # NoVersion
                                    THEN local_version ELSE global_version
            /\ pc' = IF ProjectDirectory # None THEN "project" ELSE "preferred"
            /\ UNCHANGED result
    /\ UNCHANGED fn_vars
    /\ UNCHANGED <<env_vars, files, project_file, profile_type, adapter_type,
                   shell_version, local_version, global_version,
                   version_file, lines_read, requirements, installed_versions,
                   installable_versions, pools_read>>

\* get_installed_versions(env, adapter_type): a Version(pip_specifier=name)
\* for each directory dbt-<adapter_type>==<text> under the venvs directory.
InstalledList(adapter, texts) ==
    {VersionFromSpecifier(DbtPrefix \o adapter \o <<"=", "=">> \o t, None) : t \in texts}

\* get_installable_versions(env, adapter_type): a
\* Version(adapter_type=..., version=text) for each release of the index.
InstallableList(adapter, texts) ==
    {VersionFromAdapter(adapter, t, None) : t \in texts}

\* ', '.join(requirements_project_files): the project file's base name.
RequirementsSource == BaseName(project_file)

\* Lines 333 and 270-289 (try_get_project_version): the requirements of the
\* project file are read; without any the project gives no version; a
\* preferred version compatible with all of them is returned.
ProjectStage ==
    /\ pc = "project"
    /\ \E pieces \in SubsetsUpTo(RequirementTexts, MaxReqs) :
          /\ lines_read' = [lines_read EXCEPT
                               !.requirements = [read |-> TRUE, pieces |-> pieces]]
          /\ requirements' =
                 TryGetProjectVersionRequirements(pieces, project_file, adapter_type)
          /\ IF requirements' = {}
             THEN /\ pc' = "preferred"
                  /\ UNCHANGED result
             ELSE IF /\ preferred_version # NoVersion
                     /\ \A r \in requirements' : IsCompatibleWith(r, preferred_version)
             THEN /\ result' = Returned(preferred_version, "project_preferred")
                  /\ pc' = "done"
             ELSE /\ pc' = "project_installed"
                  /\ UNCHANGED result
    /\ UNCHANGED fn_vars
    /\ UNCHANGED <<env_vars, files, project_file, profile_type, adapter_type,
                   shell_version, local_version, global_version,
                   preferred_version, version_file,
                   installed_versions, installable_versions, pools_read>>

\* Lines 291-295: the maximum installed version compatible with all the
\* requirements gets the project file as its source and is returned.
ProjectInstalledStage ==
    /\ pc = "project_installed"
    /\ \E texts \in SubsetsUpTo(PoolTexts, MaxPool) :
       LET listed == InstalledList(adapter_type, texts)
       IN  \E c \in TryGetMaxCompatibleVersion(listed, requirements) :
              IF c # NoVersion
              THEN /\ installed_versions' =
                          (listed \ {c}) \cup {SetSource(c, RequirementsSource)}
                   /\ result' = Returned(SetSource(c, RequirementsSource),
                                         "project_installed")
                   /\ pc' = "done"
              ELSE /\ installed_versions' = listed
                   /\ pc' = "project_installable"
                   /\ UNCHANGED result
    /\ pools_read' = pools_read \cup {"installed"}
    /\ UNCHANGED fn_vars
    /\ UNCHANGED <<env_vars, files, project_file, profile_type, adapter_type,
                   shell_version, local_version, global_version,
                   preferred_version, version_file, lines_read, requirements,
                   installable_versions>>

\* Lines 297-307: the same search among the installable versions; when it
\* finds nothing either, try_get_project_version returns None.
ProjectInstallableStage ==
    /\ pc = "project_installable"
    /\ \E texts \in SubsetsUpTo(PoolTexts, MaxPool) :
       LET listed == InstallableList(adapter_type, texts)
       IN  \E c \in TryGetMaxCompatibleVersion(listed, requirements) :
              IF c # NoVersion
              THEN /\ installable_versions' =
                          (listed \ {c}) \cup {SetSource(c, RequirementsSource)}
                   /\ result' = Returned(SetSource(c, RequirementsSource),
                                         "project_installable")
                   /\ pc' = "done"
              ELSE /\ installable_versions' = listed
                   /\ pc' = "preferred"
                   /\ UNCHANGED result
    /\ pools_read' = pools_read \cup {"installable"}
    /\ UNCHANGED fn_vars
    /\ UNCHANGED <<env_vars, files, project_file, profile_type, adapter_type,
                   shell_version, local_version, global_version,
                   preferred_version, version_file, lines_read, requirements,
                   installed_versions>>

\* Lines 334-338: the project gave no version; the preferred version, when
\* there is one, is returned.
PreferredStage ==
    /\ pc = "preferred"
    /\ IF preferred_version # NoVersion
       THEN /\ result' = Returned(preferred_version, "preferred")
            /\ pc' = "done"
       ELSE /\ pc' = "installed"
            /\ UNCHANGED result
    /\ UNCHANGED fn_vars
    /\ UNCHANGED <<env_vars, files, project_file, profile_type, adapter_type,
                   shell_version, local_version, global_version,
                   preferred_version, version_file, lines_read, requirements,
                   installed_versions, installable_versions, pools_read>>

MaxInstalledDescription == <<"max installed stable version for current adapter">>

MaxInstallableDescription == <<"max installable stable version for current adapter">>

\* Lines 340-343: the installed versions are listed (the same directories as
\* at line 291 when that line ran); a new Version is made from the maximum's
\* pypi_version.
InstalledStage ==
    /\ pc = "installed"
    /\ \E texts \in SubsetsUpTo(PoolTexts, MaxPool) :
       LET listed == InstalledList(adapter_type, texts)
       IN  /\ "installed" \in pools_read => listed = installed_versions
           /\ installed_versions' = listed
           /\ IF listed # {}
              THEN \E m \in GetMaxVersion(listed) :
                      /\ result' = Returned(
                             VersionFromAdapter(adapter_type, m.pypi_version,
                                                MaxInstalledDescription),
                             "installed")
                      /\ pc' = "done"
              ELSE /\ pc' = "installable"
                   /\ UNCHANGED result
    /\ pools_read' = pools_read \cup {"installed"}
    /\ UNCHANGED fn_vars
    /\ UNCHANGED <<env_vars, files, project_file, profile_type, adapter_type,
                   shell_version, local_version, global_version,
                   preferred_version, version_file, lines_read, requirements,
                   installable_versions>>

\* Lines 345-348: the maximum installable version gets its description and
\* is returned; get_max_version raises IndexError on an empty list.
InstallableStage ==
    /\ pc = "installable"
    /\ \E texts \in SubsetsUpTo(PoolTexts, MaxPool) :
       LET listed == InstallableList(adapter_type, texts)
       IN  /\ "installable" \in pools_read => listed = installable_versions
           /\ IF GetMaxVersion(listed) = {}
              THEN /\ installable_versions' = listed
                   /\ result' = Raised("IndexError", "installable")
              ELSE \E m \in GetMaxVersion(listed) :
                      LET described ==
                              [m EXCEPT !.source_description = MaxInstallableDescription]
                      IN  /\ installable_versions' = (listed \ {m}) \cup {described}
                          /\ result' = Returned(described, "installable")
    /\ pc' = "done"
    /\ pools_read' = pools_read \cup {"installable"}
    /\ UNCHANGED fn_vars
    /\ UNCHANGED <<env_vars, files, project_file, profile_type, adapter_type,
                   shell_version, local_version, global_version,
                   preferred_version, version_file, lines_read, requirements,
                   installed_versions>>

NextResolve ==
    \/ StartStage
    \/ ShellStage
    \/ LocalStage
    \/ GlobalStage
    \/ GateStage
    \/ ProjectStage
    \/ ProjectInstalledStage
    \/ ProjectInstallableStage
    \/ PreferredStage
    \/ InstalledStage
    \/ InstallableStage

SpecResolve == InitResolve /\ [][NextResolve]_vars

(***************************************************************************)
(* The comparison harness: Version objects of both classes are constructed *)
(* from three texts and compared pairwise.                                 *)
(***************************************************************************)
\* How many versions one run of the comparison harness constructs.
CompareCount == 3

\* The adapter types of the compared versions: the first version has either,
\* the others share one.
CompareAdapters == {<<"x">>, <<"y">>}

\* The version texts compared: final releases, compact and hyphenated
\* prereleases, two-digit segments, a leading zero, a fourth segment and a
\* text segment after a separator.
CompareTexts ==
    {<<"1", ".", "2", ".", "0">>,
     <<"1", ".", "2", ".", "0", "a", "1">>,
     <<"1", ".", "2", ".", "0", "-", "r", "c", "1">>,
     <<"1", ".", "2", ".", "0", "b", "1">>,
     <<"1", ".", "9", ".", "0">>,
     <<"1", ".", "1", "0", ".", "0">>,
     <<"0", ".", "9", ".", "0">>,
     <<"0", ".", "1", "9", ".", "1">>,
     <<"1", ".", "0", "2", ".", "0", ".", "1">>,
     <<"1", ".", "2", ".", "0", "+", "a">>,
     <<"1", ".", "2", ".", "0", ".", "1">>}

InitCompare ==
    /\ ResolveIdle
    /\ fn_pc = "compare_start"
    /\ fn_in \in [1..CompareCount ->
                     [adapter_type : CompareAdapters, version : CompareTexts]]
    /\ \A i \in 2..CompareCount : fn_in[i].adapter_type = fn_in[2].adapter_type
    /\ fn_obj = << >>
    /\ fn_out = << >>

\* Version(adapter_type=..., version=...) of the adapter-aware class and
\* Version(version) of the older class, for each input.
ConstructVersions ==
    /\ fn_pc = "compare_start"
    /\ fn_obj' = [new |-> [i \in 1..CompareCount |->
                              VersionFromAdapter(fn_in[i].adapter_type,
                                                 fn_in[i].version, None)],
                  old |-> [i \in 1..CompareCount |->
                              LooseVersionInit(fn_in[i].version, None, None)]]
    /\ fn_pc' = "constructed"
    /\ UNCHANGED <<fn_in, fn_out>>
    /\ UNCHANGED resolve_vars

\* a._cmp(b) for every pair of the constructed versions, in both classes.
CompareVersions ==
    /\ fn_pc = "constructed"
    /\ fn_out' = [new |-> [i \in 1..CompareCount |-> [j \in 1..CompareCount |->
                              VersionCmp(fn_obj.new[i], fn_obj.new[j])]],
                  old |-> [i \in 1..CompareCount |-> [j \in 1..CompareCount |->
                              LooseVersionCmp(fn_obj.old[i], fn_obj.old[j])]]]
    /\ fn_pc' = "compared"
    /\ UNCHANGED <<fn_in, fn_obj>>
    /\ UNCHANGED resolve_vars

\* The seeds str.__hash__ can run under (PYTHONHASHSEED): the hash of a text
\* is fixed within a process and differs from process to process.
HashSeeds == {0, 7}

\* str.__hash__ under a seed, 16 bits wide: a function of the characters.
RECURSIVE StrHash(_, _)
StrHash(seed, s) ==
    IF s = << >> THEN seed
    ELSE (StrHash(seed, Take(s, Len(s) - 1)) * 33 + Ord(s[Len(s)])) % 65536

\* Version.__hash__ (the same in both classes): the hash of pypi_version.
VersionHash(seed, self) == StrHash(seed, self.pypi_version)

\* hash(v) for each constructed version, in both classes.
HashVersions ==
    /\ fn_pc = "compared"
    /\ \E seed \in HashSeeds :
          fn_out' = [new |-> fn_out.new,
                     old |-> fn_out.old,
                     hash_new |-> [i \in 1..CompareCount |->
                                      VersionHash(seed, fn_obj.new[i])],
                     hash_old |-> [i \in 1..CompareCount |->
                                      VersionHash(seed, fn_obj.old[i])]]
    /\ fn_pc' = "hashed"
    /\ UNCHANGED <<fn_in, fn_obj>>
    /\ UNCHANGED resolve_vars

NextCompare ==
    \/ ConstructVersions
    \/ CompareVersions
    \/ HashVersions

SpecCompare == InitCompare /\ [][NextCompare]_vars

(***************************************************************************)
(* The rendering harness: a Version of the older class is constructed,     *)
(* rendered for an installer and parsed back.                              *)
(***************************************************************************)
\* Installer (dbtenv/__init__.py)
Installers == {"pip", "homebrew"}

\* Version.get_installer_version(installer) of the older class, with every
\* installer rendered as the raw text.
GetInstallerVersionRaw(self, installer) == self.raw_version

\* Version.get_installer_version(installer) of the older class.
GetInstallerVersion(self, installer) ==
    IF installer = "pip" THEN self.pypi_version
    ELSE IF installer = "homebrew" THEN self.homebrew_version
    ELSE self.raw_version

\* The numeric triples, the prerelease tags and the separators of the
\* rendered versions.
RenderTriples ==
    {<<"1", ".", "2", ".", "0">>,
     <<"0", ".", "1", "9", ".", "1">>,
     <<"1", ".", "1", "0", ".", "0">>}

RenderTags ==
    {None, <<"a", "1">>, <<"b", "1">>, <<"r", "c", "1">>, <<"a", "-", "b">>}

RenderSeparators == {None, <<"-">>}

\* The version texts rendered: a final release, or a triple, a separator and
\* a tag.
RenderTexts ==
    {t \o (IF g = None THEN None ELSE p \o g) :
        t \in RenderTriples, g \in RenderTags, p \in RenderSeparators}

InitRender ==
    /\ ResolveIdle
    /\ fn_pc = "render_start"
    /\ fn_in \in [version : RenderTexts, installer : Installers]
    /\ fn_obj = << >>
    /\ fn_out = << >>

\* Version(version) of the older class.
ConstructVersion ==
    /\ fn_pc = "render_start"
    /\ fn_obj' = [original |-> LooseVersionInit(fn_in.version, None, None)]
    /\ fn_pc' = "render_constructed"
    /\ UNCHANGED <<fn_in, fn_out>>
    /\ UNCHANGED resolve_vars

\* version.get_installer_version(installer)
RenderVersion ==
    /\ fn_pc = "render_constructed"
    /\ fn_out' = [rendered |-> GetInstallerVersion(fn_obj.original, fn_in.installer)]
    /\ fn_pc' = "rendered"
    /\ UNCHANGED <<fn_in, fn_obj>>
    /\ UNCHANGED resolve_vars

\* Version(rendered) and its comparison with the original.
ParseRendering ==
    /\ fn_pc = "rendered"
    /\ LET parsed == LooseVersionInit(fn_out.rendered, None, None)
       IN  /\ fn_obj' = [original |-> fn_obj.original, parsed |-> parsed]
           /\ fn_out' = [rendered |-> fn_out.rendered,
                         cmp |-> LooseVersionCmp(parsed, fn_obj.original)]
    /\ fn_pc' = "reparsed"
    /\ UNCHANGED fn_in
    /\ UNCHANGED resolve_vars

NextRender ==
    \/ ConstructVersion
    \/ RenderVersion
    \/ ParseRendering

SpecRender == InitRender /\ [][NextRender]_vars

(***************************************************************************)
(* The maximum harness: get_max_version and try_get_max_compatible_version *)
(* applied to a collection of versions and a list of requirements.         *)
(***************************************************************************)
\* The version texts of the collections: PoolTexts and a second prerelease.
CandidateTexts ==
    PoolTexts \cup {<<"1", ".", "9", ".", "0", "b", "2">>}

\* The project file the requirements are read from.
HarnessProjectFile == PathJoin(Dir(0), PROJECT_FILE_NAME)

InitMax ==
    /\ ResolveIdle
    /\ fn_pc = "max_start"
    /\ fn_in \in [texts : SubsetsUpTo(CandidateTexts, MaxPool),
                  requirements : SubsetsUpTo(RequirementTexts \ {None}, MaxReqs)]
    /\ fn_obj = << >>
    /\ fn_out = << >>

\* The collection as get_installable_versions builds it and the requirements
\* as try_get_project_version_requirements builds them, for adapter type x.
BuildCandidates ==
    /\ fn_pc = "max_start"
    /\ \E a \in AdapterTypes :
          fn_obj' = [versions |-> InstallableList(a, fn_in.texts),
                     requirements |-> TryGetProjectVersionRequirements(
                                          fn_in.requirements, HarnessProjectFile, a)]
    /\ fn_pc' = "built"
    /\ UNCHANGED <<fn_in, fn_out>>
    /\ UNCHANGED resolve_vars

\* get_max_version(versions): a result, or the IndexError of an empty list.
CallGetMaxVersion ==
    /\ fn_pc = "built"
    /\ IF GetMaxVersion(fn_obj.versions) = {}
       THEN fn_out' = [max |-> [raised |-> TRUE, version |-> NoVersion],
                       compatible |-> NoVersion]
       ELSE \E m \in GetMaxVersion(fn_obj.versions) :
               fn_out' = [max |-> [raised |-> FALSE, version |-> m],
                          compatible |-> NoVersion]
    /\ fn_pc' = "max_done"
    /\ UNCHANGED <<fn_in, fn_obj>>
    /\ UNCHANGED resolve_vars

\* try_get_max_compatible_version(versions, requirements)
CallTryGetMaxCompatibleVersion ==
    /\ fn_pc = "max_done"
    /\ \E c \in TryGetMaxCompatibleVersion(fn_obj.versions, fn_obj.requirements) :
          fn_out' = [fn_out EXCEPT !.compatible = c]
    /\ fn_pc' = "compatible_done"
    /\ UNCHANGED <<fn_in, fn_obj>>
    /\ UNCHANGED resolve_vars

NextMax ==
    \/ BuildCandidates
    \/ CallGetMaxVersion
    \/ CallTryGetMaxCompatibleVersion

SpecMax == InitMax /\ [][NextMax]_vars

(***************************************************************************)
(* The requirement harness: VersionRequirement constructed from a text and *)
(* evaluated on a candidate version.                                       *)
(***************************************************************************)
\* The operator texts a requirement is written with: none, the five of
\* is_compatible_with, and three others.
OperatorTexts ==
    {<< >>, <<"<">>, <<"<", "=">>, <<">">>, <<">", "=">>, <<"=", "=">>,
     <<"=">>, <<"!", "=">>, <<"~", "=">>}

\* The texts that follow the operator.
RemainderTexts ==
    {<<"1", ".", "0", ".", "0">>,
     <<"1", ".", "0">>,
     <<"1", ".", "9", ".", "0", "r", "c", "1">>}

\* The versions the requirement is evaluated on.
EvaluatedTexts ==
    {<<"0", ".", "9", ".", "9">>,
     <<"1", ".", "0", ".", "0">>,
     <<"1", ".", "9", ".", "0", "r", "c", "1">>}

\* The requirement texts: an operator text and a remainder, and the empty text.
RequirementInputs ==
    {o \o t : o \in OperatorTexts, t \in RemainderTexts} \cup {None}

InitRequirement ==
    /\ ResolveIdle
    /\ fn_pc = "requirement_start"
    /\ fn_in \in [requirement : RequirementInputs, version : EvaluatedTexts]
    /\ fn_obj = << >>
    /\ fn_out = << >>

\* VersionRequirement(adapter_type, requirement, source).  When the regular
\* expression does not match, requirement_match is None and subscripting it
\* raises TypeError.
ConstructRequirement ==
    /\ fn_pc = "requirement_start"
    /\ \E a \in AdapterTypes :
          fn_obj' =
              IF RequirementMatch(fn_in.requirement).matched
              THEN [raised |-> FALSE,
                    requirement |-> VersionRequirementInit(
                                        a, fn_in.requirement, HarnessProjectFile)]
              ELSE [raised |-> TRUE, requirement |-> None]
    /\ fn_pc' = "requirement_built"
    /\ UNCHANGED <<fn_in, fn_out>>
    /\ UNCHANGED resolve_vars

\* requirement.is_compatible_with(Version(adapter_type, version))
EvaluateRequirement ==
    /\ fn_pc = "requirement_built"
    /\ ~fn_obj.raised
    /\ LET self == fn_obj.requirement
           version == VersionFromAdapter(self.version.adapter_type,
                                         fn_in.version, None)
       IN  fn_out' = [compatible |-> IsCompatibleWith(self, version)]
    /\ fn_pc' = "requirement_evaluated"
    /\ UNCHANGED <<fn_in, fn_obj>>
    /\ UNCHANGED resolve_vars

NextRequirement ==
    \/ ConstructRequirement
    \/ EvaluateRequirement

SpecRequirement == InitRequirement /\ [][NextRequirement]_vars

(***************************************************************************)
(* The search harness: Environment.find_file_along_working_path, one       *)
(* action per iteration of its loop.                                       *)
(***************************************************************************)
\* The file names searched for.
SearchedNames == {LOCAL_VERSION_FILE, PROJECT_FILE_NAME}

\* The paths os.path.isfile may accept: a file of either name in each of the
\* directories Dir(0) .. Dir(WdDepth).
SearchableFiles ==
    {PathJoin(Dir(k), n) : k \in 0..WdDepth, n \in SearchedNames}

\* An iteration that tests for the root before it tests for the file.
FindStepParentFirst(search_dir, file_name, isfile) ==
    LET file_path  == PathJoin(search_dir, file_name)
        parent_dir == DirName(search_dir)
    IN  IF parent_dir = search_dir
        THEN [returned |-> TRUE, value |-> None, search_dir |-> search_dir]
        ELSE IF file_path \in isfile
        THEN [returned |-> TRUE, value |-> file_path, search_dir |-> search_dir]
        ELSE [returned |-> FALSE, value |-> None, search_dir |-> parent_dir]

\* One iteration of the while loop: the file of search_dir is returned when
\* it exists, None when search_dir is its own parent, else the search moves
\* to the parent.
FindStep(search_dir, file_name, isfile) ==
    LET file_path  == PathJoin(search_dir, file_name)
        parent_dir == DirName(search_dir)
    IN  IF file_path \in isfile
        THEN [returned |-> TRUE, value |-> file_path, search_dir |-> search_dir]
        ELSE IF parent_dir = search_dir
        THEN [returned |-> TRUE, value |-> None, search_dir |-> search_dir]
        ELSE [returned |-> FALSE, value |-> None, search_dir |-> parent_dir]

InitFind ==
    /\ ResolveIdle
    /\ fn_pc = "find_start"
    /\ fn_in \in [working_directory : {Dir(k) : k \in 0..WdDepth},
                  file_name : SearchedNames,
                  isfile : SUBSET SearchableFiles]
    /\ fn_obj = << >>
    /\ fn_out = << >>

\* search_dir = self.working_directory
BeginSearch ==
    /\ fn_pc = "find_start"
    /\ fn_obj' = [search_dir |-> fn_in.working_directory]
    /\ fn_pc' = "find_loop"
    /\ UNCHANGED <<fn_in, fn_out>>
    /\ UNCHANGED resolve_vars

\* An iteration that goes on with the parent directory.
SearchParent ==
    /\ fn_pc = "find_loop"
    /\ LET step == FindStep(fn_obj.search_dir, fn_in.file_name, fn_in.isfile)
       IN  /\ ~step.returned
           /\ fn_obj' = [search_dir |-> step.search_dir]
    /\ UNCHANGED <<fn_pc, fn_in, fn_out>>
    /\ UNCHANGED resolve_vars

\* An iteration that returns: the file's path, or None at the root.
SearchReturn ==
    /\ fn_pc = "find_loop"
    /\ LET step == FindStep(fn_obj.search_dir, fn_in.file_name, fn_in.isfile)
       IN  /\ step.returned
           /\ fn_out' = [file_path |-> step.value]
    /\ fn_pc' = "find_done"
    /\ UNCHANGED <<fn_in, fn_obj>>
    /\ UNCHANGED resolve_vars

NextFind ==
    \/ BeginSearch
    \/ SearchParent
    \/ SearchReturn

\* The loop is sequential code: an iteration that can run does run.
SpecFind == InitFind /\ [][NextFind]_vars /\ WF_vars(NextFind)

(***************************************************************************)
(* The logging harness: the level of the dbtenv logger from the import of  *)
(* the package to the end of main's handling of --debug and --quiet.       *)
(***************************************************************************)
\* str.lower() for the characters of LoggingTexts.
LowerChar(c) == IF c = "Y" THEN "y" ELSE IF c = "N" THEN "n" ELSE c

\* str.lower()
LowerCase(s) == [i \in DOMAIN s |-> LowerChar(s[i])]

\* string_is_true(value)
StringIsTrue(value) ==
    LowerCase(Strip(value)) \in
        {<<"1">>, <<"a", "c", "t", "i", "v", "e">>, <<"e", "n", "a", "b", "l", "e">>,
         <<"e", "n", "a", "b", "l", "e", "d">>, <<"o", "n">>, <<"t">>,
         <<"t", "r", "u", "e">>, <<"y">>, <<"y", "e", "s">>}

\* The values DBTENV_DEBUG and DBTENV_QUIET are set to.
LoggingTexts == {<<"1">>, <<"0">>, <<" ", "Y">>}

\* An environment variable: unset, or set to one of LoggingTexts.
LoggingVariable ==
    {[set |-> FALSE, value |-> None]} \cup {[set |-> TRUE, value |-> t] : t \in LoggingTexts}

\* A store_const option: None when absent, True when given.
FlagValues == {[given |-> FALSE], [given |-> TRUE]}

\* Environment._debug and Environment._quiet: None until read or assigned.
Unread == [set |-> FALSE, value |-> FALSE]

Assigned(value) == [set |-> TRUE, value |-> value]

\* The debug property: the environment object after the read.
ReadDebug(self, variables) ==
    IF self.debug.set THEN self
    ELSE [self EXCEPT !.debug =
             Assigned(variables.debug.set /\ StringIsTrue(variables.debug.value))]

\* The quiet property: the environment object after the read.
ReadQuiet(self, variables) ==
    IF self.quiet.set THEN self
    ELSE [self EXCEPT !.quiet =
             Assigned(variables.quiet.set /\ StringIsTrue(variables.quiet.value))]

\* Environment.update_logging_level(): the level set and the object after
\* the properties were read (quiet is read only when debug is false).
UpdateLoggingLevel(self, variables) ==
    LET d == ReadDebug(self, variables)
        q == ReadQuiet(d, variables)
    IN  IF d.debug.value THEN [level |-> "DEBUG", self |-> d]
        ELSE IF q.quiet.value THEN [level |-> "ERROR", self |-> q]
        ELSE [level |-> "INFO", self |-> q]

InitLogging ==
    /\ ResolveIdle
    /\ fn_pc = "logging_start"
    /\ fn_in \in [debug : LoggingVariable, quiet : LoggingVariable,
                  args_debug : FlagValues, args_subcommand_debug : FlagValues,
                  args_quiet : FlagValues, args_subcommand_quiet : FlagValues]
    /\ fn_obj = << >>
    /\ fn_out = << >>

\* import dbtenv: LOGGER.setLevel(DEBUG if string_is_true(DBTENV_DEBUG or '')
\* else INFO); then env = Environment().
ImportPackage ==
    /\ fn_pc = "logging_start"
    /\ fn_out' = [level |-> IF fn_in.debug.set /\ StringIsTrue(fn_in.debug.value)
                            THEN "DEBUG" ELSE "INFO"]
    /\ fn_obj' = [debug |-> Unread, quiet |-> Unread]
    /\ fn_pc' = "imported"
    /\ UNCHANGED fn_in
    /\ UNCHANGED resolve_vars

\* main: debug = parsed_args.debug or subcommand_debug; if debug: env.debug = debug
ApplyDebugOption ==
    /\ fn_pc = "imported"
    /\ IF fn_in.args_debug.given \/ fn_in.args_subcommand_debug.given
       THEN LET u == UpdateLoggingLevel([fn_obj EXCEPT !.debug = Assigned(TRUE)], fn_in)
            IN  /\ fn_obj' = u.self
                /\ fn_out' = [level |-> u.level]
       ELSE UNCHANGED <<fn_obj, fn_out>>
    /\ fn_pc' = "debug_applied"
    /\ UNCHANGED fn_in
    /\ UNCHANGED resolve_vars

\* main: quiet = parsed_args.quiet or subcommand_quiet; if quiet: env.quiet = quiet
ApplyQuietOption ==
    /\ fn_pc = "debug_applied"
    /\ IF fn_in.args_quiet.given \/ fn_in.args_subcommand_quiet.given
       THEN LET u == UpdateLoggingLevel([fn_obj EXCEPT !.quiet = Assigned(TRUE)], fn_in)
            IN  /\ fn_obj' = u.self
                /\ fn_out' = [level |-> u.level]
       ELSE UNCHANGED <<fn_obj, fn_out>>
    /\ fn_pc' = "quiet_applied"
    /\ UNCHANGED fn_in
    /\ UNCHANGED resolve_vars

NextLogging ==
    \/ ImportPackage
    \/ ApplyDebugOption
    \/ ApplyQuietOption

SpecLogging == InitLogging /\ [][NextLogging]_vars

(***************************************************************************)
(* The installation-directory harness: two Versions are constructed, each  *)
(* from a pip specifier or from an adapter type and a version, and a       *)
(* PipDbt is made for each (dbtenv/pip.py).                                *)
(***************************************************************************)
\* env.venvs_directory: os.path.expanduser(DEFAULT_VENVS_DIRECTORY)
VenvsDirectory ==
    <<"~", "/", ".", "d", "b", "t", "/", "v", "e", "r", "s", "i", "o", "n", "s">>

\* PipDbt.__init__: self.venv_directory
VenvDirectory(version) == PathJoin(VenvsDirectory, version.pip_specifier)

\* The version texts: a final release, one prerelease written with and
\* without the hyphen, and a later release.
VenvTexts ==
    {<<"1", ".", "2", ".", "0">>,
     <<"1", ".", "2", ".", "0", "-", "r", "c", "1">>,
     <<"1", ".", "2", ".", "0", "r", "c", "1">>,
     <<"1", ".", "1", "0", ".", "0">>}

\* The two ways a Version is constructed.
VersionForms == {"pip_specifier", "adapter_type"}

\* Version(pip_specifier=dbt-<adapter_type>==<version>) or
\* Version(adapter_type=..., version=...)
ConstructFrom(input) ==
    IF input.form = "pip_specifier"
    THEN VersionFromSpecifier(
             DbtPrefix \o input.adapter_type \o <<"=", "=">> \o input.version, None)
    ELSE VersionFromAdapter(input.adapter_type, input.version, None)

InitVenv ==
    /\ ResolveIdle
    /\ fn_pc = "venv_start"
    /\ fn_in \in [1..2 -> [form : VersionForms, adapter_type : AdapterTypes,
                           version : VenvTexts]]
    /\ fn_obj = << >>
    /\ fn_out = << >>

\* The two Versions.
ConstructPair ==
    /\ fn_pc = "venv_start"
    /\ fn_obj' = [i \in 1..2 |-> ConstructFrom(fn_in[i])]
    /\ fn_pc' = "venv_constructed"
    /\ UNCHANGED <<fn_in, fn_out>>
    /\ UNCHANGED resolve_vars

\* PipDbt(env, version) for each of them, and version == other.
LocatePair ==
    /\ fn_pc = "venv_constructed"
    /\ fn_out' = [venv_directory |-> [i \in 1..2 |-> VenvDirectory(fn_obj[i])],
                  equal |-> VersionEq(fn_obj[1], fn_obj[2])]
    /\ fn_pc' = "venv_located"
    /\ UNCHANGED <<fn_in, fn_obj>>
    /\ UNCHANGED resolve_vars

NextVenv ==
    \/ ConstructPair
    \/ LocatePair

SpecVenv == InitVenv /\ [][NextVenv]_vars

(***************************************************************************)
(* The installation harness: ExecuteSubcommand.execute from the resolved   *)
(* version on (execute.py lines 83-91), and PipDbt.install called on its   *)
(* own, one action per step.  fn_obj holds the virtual-environment         *)
(* directory of the version and the PipDbt object at work; fn_out what     *)
(* happened.                                                               *)
(***************************************************************************)
\* The virtual-environment directory: whether it exists, and whether it
\* holds bin/pip and bin/dbt.
AbsentVenv == [isdir |-> FALSE, pip |-> FALSE, dbt |-> FALSE]

Venvs == {v \in [isdir : BOOLEAN, pip : BOOLEAN, dbt : BOOLEAN] :
              (v.pip \/ v.dbt) => v.isdir}

\* PipDbt.__init__: self._executable = None
NewPipDbt == [executable |-> FALSE]

\* A get_executable that takes the directory for the installation.
GetExecutableOfDirectory(self, venv) ==
    IF self.executable THEN [raised |-> FALSE, self |-> self]
    ELSE IF ~venv.isdir THEN [raised |-> TRUE, self |-> self]
    ELSE [raised |-> FALSE, self |-> [self EXCEPT !.executable = TRUE]]

\* PipDbt.get_executable(): the cached path; else DbtenvError when the
\* directory or bin/dbt is missing; else the path, which is cached.
GetExecutable(self, venv) ==
    IF self.executable THEN [raised |-> FALSE, self |-> self]
    ELSE IF ~venv.isdir THEN [raised |-> TRUE, self |-> self]
    ELSE IF venv.dbt THEN [raised |-> FALSE, self |-> [self EXCEPT !.executable = TRUE]]
    ELSE [raised |-> TRUE, self |-> self]

\* Dbt.is_installed(): try_get_executable() is not None
IsInstalled(self, venv) ==
    LET r == GetExecutable(self, venv)
    IN  [value |-> ~r.raised, self |-> r.self]

\* which.get_dbt(env, version): a new PipDbt whose executable was found,
\* else DbtenvError.
GetDbt(venv) ==
    LET r == GetExecutable(NewPipDbt, venv)
    IN  IF r.raised THEN [raised |-> TRUE, dbt |-> NewPipDbt]
        ELSE IF IsInstalled(r.self, venv).value THEN [raised |-> FALSE, dbt |-> r.self]
        ELSE [raised |-> TRUE, dbt |-> NewPipDbt]

\* An install that keeps the cached executable when it overwrites.
InstallCheckKeepingExecutable(self, venv, force) ==
    LET i == IsInstalled(self, venv)
    IN  IF i.value /\ ~force THEN [raised |-> TRUE, self |-> i.self]
        ELSE [raised |-> FALSE, self |-> i.self]

\* PipDbt.install lines 92-97: an installed version is overwritten with
\* force (the cached executable is forgotten) and refused without.
InstallCheck(self, venv, force) ==
    LET i == IsInstalled(self, venv)
    IN  IF i.value /\ force
        THEN [raised |-> FALSE, self |-> [i.self EXCEPT !.executable = FALSE]]
        ELSE IF i.value THEN [raised |-> TRUE, self |-> i.self]
        ELSE [raised |-> FALSE, self |-> i.self]

NoOutcome ==
    [started |-> FALSE, install_called |-> FALSE,
     venv_created |-> FALSE, install_raised |-> FALSE, checked |-> FALSE,
     installed_after |-> FALSE, untouched |-> TRUE, error |-> "", return_code |-> "none"]

\* fn_out: started, dbt was started; install_called, install was called;
\* venv_created, install_raised and untouched tell of the latest call of
\* install: it created the virtual environment, it raised, it left the
\* directory as it was; checked and installed_after, is_installed() was
\* called after install and what it returned.
\* The return codes of the dbt process: success, a failure, a larger failure.
ReturnCodes == {"0", "1", "2"}

InitExecute ==
    /\ ResolveIdle
    /\ fn_pc = "start"
    /\ fn_in \in [entry : {"execute", "install"}, auto_install : BOOLEAN,
                  force : BOOLEAN, venv : Venvs]
    /\ fn_obj = [venv |-> fn_in.venv, pip_dbt |-> NewPipDbt, caller |-> "none",
                 force |-> FALSE]
    /\ fn_out = NoOutcome

\* Where control goes when install returns.
AfterInstallReturned(caller) ==
    IF caller = "install" THEN "install_after"
    ELSE IF caller = "auto_install" THEN "get_dbt"
    ELSE "execute_again"

\* Where control goes when install raises: nothing catches the error.
AfterInstallRaised(caller) ==
    IF caller = "install" THEN "install_after" ELSE "finished"

\* execute.py lines 83-89: dbt = try_get_dbt(env, version); without one,
\* install_dbt and get_dbt with auto-install, DbtenvError without.
\* install_dbt (dbtenv/install.py) is taken to call PipDbt(env, version).install().
TryGetDbt ==
    /\ fn_pc = "start"
    /\ fn_in.entry = "execute"
    /\ LET r == GetDbt(fn_obj.venv)
       IN  IF ~r.raised
           THEN /\ fn_obj' = [fn_obj EXCEPT !.pip_dbt = r.dbt]
                /\ fn_pc' = "execute"
                /\ UNCHANGED fn_out
           ELSE IF fn_in.auto_install
           THEN /\ fn_obj' = [fn_obj EXCEPT !.pip_dbt = NewPipDbt,
                                            !.caller = "auto_install",
                                            !.force = FALSE]
                /\ fn_out' = [fn_out EXCEPT !.install_called = TRUE]
                /\ fn_pc' = "install_check"
           ELSE /\ fn_out' = [fn_out EXCEPT !.error = "DbtenvError"]
                /\ fn_pc' = "finished"
                /\ UNCHANGED fn_obj
    /\ UNCHANGED fn_in
    /\ UNCHANGED resolve_vars

\* PipDbt(env, version).install(force) called on its own.
CallInstall ==
    /\ fn_pc = "start"
    /\ fn_in.entry = "install"
    /\ fn_obj' = [fn_obj EXCEPT !.caller = "install", !.force = fn_in.force]
    /\ fn_out' = [fn_out EXCEPT !.install_called = TRUE]
    /\ fn_pc' = "install_check"
    /\ UNCHANGED fn_in
    /\ UNCHANGED resolve_vars

\* install lines 92-97
InstallCheckInstalled ==
    /\ fn_pc = "install_check"
    /\ LET r == InstallCheck(fn_obj.pip_dbt, fn_obj.venv, fn_obj.force)
       IN  /\ fn_obj' = [fn_obj EXCEPT !.pip_dbt = r.self]
           /\ IF r.raised
              THEN /\ fn_out' = [fn_out EXCEPT !.error = "DbtenvError",
                                               !.install_raised = TRUE]
                   /\ fn_pc' = AfterInstallRaised(fn_obj.caller)
              ELSE /\ fn_pc' = "install_available"
                   /\ UNCHANGED fn_out
    /\ UNCHANGED fn_in
    /\ UNCHANGED resolve_vars

\* install lines 99-102: a version the index does not list is not installed
\* and install returns.
InstallCheckAvailable ==
    /\ fn_pc = "install_available"
    /\ \E available \in BOOLEAN :
          fn_pc' = IF available THEN "install_python"
                   ELSE AfterInstallReturned(fn_obj.caller)
    /\ UNCHANGED <<fn_in, fn_obj, fn_out>>
    /\ UNCHANGED resolve_vars

\* install lines 104-105: _check_python_compatibility raises DbtenvError.
InstallCheckPython ==
    /\ fn_pc = "install_python"
    /\ \E compatible \in BOOLEAN :
          IF compatible
          THEN /\ fn_pc' = "install_venv"
               /\ UNCHANGED fn_out
          ELSE /\ fn_out' = [fn_out EXCEPT !.error = "DbtenvError",
                                           !.install_raised = TRUE]
               /\ fn_pc' = AfterInstallRaised(fn_obj.caller)
    /\ UNCHANGED <<fn_in, fn_obj>>
    /\ UNCHANGED resolve_vars

\* install lines 107-110: python -m venv --clear; a failure leaves the
\* directory as it was, or emptied, or missing; a success leaves a directory
\* without dbt, with or without pip.
InstallCreateVenv ==
    /\ fn_pc = "install_venv"
    /\ \E succeeded \in BOOLEAN, pip \in BOOLEAN, left \in BOOLEAN :
          IF succeeded
          THEN /\ fn_obj' = [fn_obj EXCEPT
                                !.venv = [isdir |-> TRUE, pip |-> pip, dbt |-> FALSE]]
               /\ fn_out' = [fn_out EXCEPT !.venv_created = TRUE, !.untouched = FALSE]
               /\ fn_pc' = "install_pip"
          ELSE /\ \/ UNCHANGED fn_obj
                  \/ fn_obj' = [fn_obj EXCEPT
                                   !.venv = [isdir |-> left, pip |-> FALSE, dbt |-> FALSE]]
               /\ fn_out' = [fn_out EXCEPT !.error = "DbtenvError",
                                           !.install_raised = TRUE,
                                           !.untouched = (fn_obj' = fn_obj)]
               /\ fn_pc' = AfterInstallRaised(fn_obj.caller)
    /\ UNCHANGED fn_in
    /\ UNCHANGED resolve_vars

\* install lines 112-113 and 148-150: without bin/pip _find_pip raises
\* DbtenvError; the handler removes the directory and raises it again.
InstallFindPip ==
    /\ fn_pc = "install_pip"
    /\ IF fn_obj.venv.pip
       THEN /\ fn_pc' = "install_package"
            /\ UNCHANGED <<fn_obj, fn_out>>
       ELSE /\ fn_obj' = [fn_obj EXCEPT !.venv = AbsentVenv]
            /\ fn_out' = [fn_out EXCEPT !.error = "DbtenvError",
                                        !.install_raised = TRUE]
            /\ fn_pc' = AfterInstallRaised(fn_obj.caller)
    /\ UNCHANGED fn_in
    /\ UNCHANGED resolve_vars

\* install lines 114-152: pip installs the package; a non-zero return code
\* raises DbtenvError, the handler removes the directory and raises it again.
InstallPackage ==
    /\ fn_pc = "install_package"
    /\ \E succeeded \in BOOLEAN, dbt \in BOOLEAN :
          IF succeeded
          THEN /\ fn_obj' = [fn_obj EXCEPT !.venv.dbt = dbt]
               /\ fn_pc' = AfterInstallReturned(fn_obj.caller)
               /\ UNCHANGED fn_out
          ELSE /\ fn_obj' = [fn_obj EXCEPT !.venv = AbsentVenv]
               /\ fn_out' = [fn_out EXCEPT !.error = "DbtenvError",
                                           !.install_raised = TRUE]
               /\ fn_pc' = AfterInstallRaised(fn_obj.caller)
    /\ UNCHANGED fn_in
    /\ UNCHANGED resolve_vars

\* is_installed() on the same PipDbt once install has returned or raised.
CheckInstalledAfter ==
    /\ fn_pc = "install_after"
    /\ LET i == IsInstalled(fn_obj.pip_dbt, fn_obj.venv)
       IN  /\ fn_obj' = [fn_obj EXCEPT !.pip_dbt = i.self]
           /\ fn_out' = [fn_out EXCEPT !.checked = TRUE, !.installed_after = i.value]
    /\ fn_pc' = "finished"
    /\ UNCHANGED fn_in
    /\ UNCHANGED resolve_vars

\* execute.py line 87: dbt = get_dbt(env, version) after install_dbt.
GetDbtAfterInstall ==
    /\ fn_pc = "get_dbt"
    /\ LET r == GetDbt(fn_obj.venv)
       IN  IF r.raised
           THEN /\ fn_out' = [fn_out EXCEPT !.error = "DbtenvError"]
                /\ fn_pc' = "finished"
                /\ UNCHANGED fn_obj
           ELSE /\ fn_obj' = [fn_obj EXCEPT !.pip_dbt = r.dbt]
                /\ fn_pc' = "execute"
                /\ UNCHANGED fn_out
    /\ UNCHANGED fn_in
    /\ UNCHANGED resolve_vars

\* Dbt.execute lines 331-351 for a process that starts: dbt runs and a
\* non-zero return code raises DbtError.
StartDbt ==
    \E return_code \in ReturnCodes :
        fn_out' = [fn_out EXCEPT !.started = TRUE,
                                 !.return_code = return_code,
                                 !.error = IF return_code = "0" THEN ""
                                           ELSE "DbtError"]

\* execute.py line 91, PipDbt.execute lines 201-227: the process starts, or
\* Popen raises FileNotFoundError (always when bin/dbt is missing); then the
\* user may have the version installed again with force.
ExecuteDbt ==
    /\ fn_pc = "execute"
    /\ LET r == GetExecutable(fn_obj.pip_dbt, fn_obj.venv)
       IN  IF r.raised
           THEN /\ fn_out' = [fn_out EXCEPT !.error = "DbtenvError"]
                /\ fn_pc' = "finished"
                /\ UNCHANGED fn_obj
           ELSE \/ /\ fn_obj.venv.dbt
                   /\ StartDbt
                   /\ fn_obj' = [fn_obj EXCEPT !.pip_dbt = r.self]
                   /\ fn_pc' = "finished"
                \/ /\ fn_out' = [fn_out EXCEPT !.error = "FileNotFoundError"]
                   /\ fn_obj' = [fn_obj EXCEPT !.pip_dbt = r.self]
                   /\ fn_pc' = "finished"
                \/ /\ fn_obj' = [fn_obj EXCEPT !.pip_dbt = r.self,
                                                !.caller = "reinstall",
                                                !.force = TRUE]
                   /\ fn_out' = [fn_out EXCEPT !.install_called = TRUE,
                                               !.venv_created = FALSE,
                                               !.install_raised = FALSE,
                                               !.untouched = TRUE]
                   /\ fn_pc' = "install_check"
    /\ UNCHANGED fn_in
    /\ UNCHANGED resolve_vars

\* PipDbt.execute line 226: super().execute(args) after the reinstallation.
ExecuteDbtAgain ==
    /\ fn_pc = "execute_again"
    /\ LET r == GetExecutable(fn_obj.pip_dbt, fn_obj.venv)
       IN  IF r.raised
           THEN /\ fn_out' = [fn_out EXCEPT !.error = "DbtenvError"]
                /\ UNCHANGED fn_obj
           ELSE \/ /\ fn_obj.venv.dbt
                   /\ StartDbt
                   /\ fn_obj' = [fn_obj EXCEPT !.pip_dbt = r.self]
                \/ /\ fn_out' = [fn_out EXCEPT !.error = "FileNotFoundError"]
                   /\ fn_obj' = [fn_obj EXCEPT !.pip_dbt = r.self]
    /\ fn_pc' = "finished"
    /\ UNCHANGED fn_in
    /\ UNCHANGED resolve_vars

NextExecute ==
    \/ TryGetDbt
    \/ CallInstall
    \/ InstallCheckInstalled
    \/ InstallCheckAvailable
    \/ InstallCheckPython
    \/ InstallCreateVenv
    \/ InstallFindPip
    \/ InstallPackage
    \/ CheckInstalledAfter
    \/ GetDbtAfterInstall
    \/ ExecuteDbt
    \/ ExecuteDbtAgain

SpecExecute == InitExecute /\ [][NextExecute]_vars

(***************************************************************************)
(* The exit harness: main from the parsed sub-command to sys.exit          *)
(* (main.py), with Dbt.execute for the execute sub-command.                *)
(***************************************************************************)
\* class ExitCode
SUCCESS == 0

FAILURE == 1

INTERRUPTED == 2

\* parsed_args.subcommand: None (written as the empty text) or a name the
\* parser accepts.
Subcommands ==
    {"", "versions", "install", "version", "which", "execute", "exec", "uninstall"}

\* What the sub-command's execute does: it returns, it raises DbtenvError,
\* the user interrupts it, or (execute only) it runs dbt.
Behaviours == {"returns", "DbtenvError", "KeyboardInterrupt", "dbt"}

\* process.poll() once dbt has ended: an exit code, or the negated number of
\* the signal that ended it.
ChildReturnCodes == {0, 1, 3, 255, -9}

\* An exit status that is FAILURE for every error.
ExitStatusAlwaysFailure(outcome) ==
    IF outcome.kind = "returned" THEN SUCCESS
    ELSE IF outcome.kind = "DbtenvError" THEN FAILURE
    ELSE IF outcome.kind = "DbtError" THEN FAILURE
    ELSE INTERRUPTED

\* The status main exits with (lines 172-182); the operating system keeps
\* the low eight bits of sys.exit's argument.
ExitStatus(outcome) ==
    IF outcome.kind = "returned" THEN SUCCESS
    ELSE IF outcome.kind = "DbtenvError" THEN FAILURE
    ELSE IF outcome.kind = "DbtError" THEN outcome.exit_code % 256
    ELSE INTERRUPTED

Outcome(kind, exit_code) == [kind |-> kind, exit_code |-> exit_code]

InitMain ==
    /\ ResolveIdle
    /\ fn_pc = "main_start"
    /\ fn_in \in [subcommand : Subcommands, behaviour : Behaviours,
                  return_code : ChildReturnCodes, interrupted : BOOLEAN]
    /\ fn_in.behaviour = "dbt" => fn_in.subcommand \in {"execute", "exec"}
    /\ fn_obj = << >>
    /\ fn_out = << >>

\* main lines 153-156: without a sub-command the help is printed and main
\* exits with FAILURE.
CheckSubcommand ==
    /\ fn_pc = "main_start"
    /\ IF fn_in.subcommand = ""
       THEN /\ fn_out' = [exit_status |-> FAILURE]
            /\ fn_obj' = [kind |-> "SystemExit", exit_code |-> FAILURE]
            /\ fn_pc' = "exited"
       ELSE /\ fn_pc' = "dispatch"
            /\ UNCHANGED <<fn_obj, fn_out>>
    /\ UNCHANGED fn_in
    /\ UNCHANGED resolve_vars

\* main lines 158-169: the sub-command's execute.
ExecuteSubcommand ==
    /\ fn_pc = "dispatch"
    /\ IF fn_in.behaviour = "dbt"
       THEN /\ fn_pc' = "dbt_running"
            /\ UNCHANGED fn_obj
       ELSE /\ fn_obj' = Outcome(IF fn_in.behaviour = "returns" THEN "returned"
                                 ELSE fn_in.behaviour, 0)
            /\ fn_pc' = "handling"
    /\ UNCHANGED <<fn_in, fn_out>>
    /\ UNCHANGED resolve_vars

\* Dbt.execute lines 335-351: a KeyboardInterrupt is raised again once dbt was
\* waited for; a return code other than 0 raises DbtError(return_code).
DbtExecute ==
    /\ fn_pc = "dbt_running"
    /\ fn_obj' = IF fn_in.interrupted THEN Outcome("KeyboardInterrupt", 0)
                 ELSE IF fn_in.return_code # 0
                 THEN Outcome("DbtError", fn_in.return_code)
                 ELSE Outcome("returned", 0)
    /\ fn_pc' = "handling"
    /\ UNCHANGED <<fn_in, fn_out>>
    /\ UNCHANGED resolve_vars

\* main lines 172-182
ExitMain ==
    /\ fn_pc = "handling"
    /\ fn_out' = [exit_status |-> ExitStatus(fn_obj)]
    /\ fn_pc' = "exited"
    /\ UNCHANGED <<fn_in, fn_obj>>
    /\ UNCHANGED resolve_vars

NextMain ==
    \/ CheckSubcommand
    \/ ExecuteSubcommand
    \/ DbtExecute
    \/ ExitMain

SpecMain == InitMain /\ [][NextMain]_vars

(***************************************************************************)
(* The ordering the specification gives to semantic versions: the          *)
(* MAJOR.MINOR.PATCH segments compared numerically, a prerelease before    *)
(* the final release of its triple, prerelease tails compared lexically.   *)
(***************************************************************************)
\* The numbers of a MAJOR.MINOR.PATCH text.
NumericTriple(major_minor_patch) ==
    LET t  == major_minor_patch
        d1 == DigitRun(t, 1)
        d2 == DigitRun(t, d1 + 2)
        d3 == DigitRun(t, d1 + d2 + 3)
    IN  <<ParseInt(SubSeq(t, 1, d1)),
          ParseInt(SubSeq(t, d1 + 2, d1 + d2 + 1)),
          ParseInt(SubSeq(t, d1 + d2 + 3, d1 + d2 + d3 + 2))>>

TripleLess(a, b) ==
    \/ a[1] < b[1]
    \/ a[1] = b[1] /\ a[2] < b[2]
    \/ a[1] = b[1] /\ a[2] = b[2] /\ a[3] < b[3]

\* a < b for two semantic versions.
SpecLess(a, b) ==
    LET ta == NumericTriple(a.major_minor_patch)
        tb == NumericTriple(b.major_minor_patch)
    IN  \/ TripleLess(ta, tb)
        \/ /\ ta = tb
           /\ \/ a.prerelease # None /\ b.prerelease = None
              \/ /\ a.prerelease # None
                 /\ b.prerelease # None
                 /\ StrLess(a.prerelease, b.prerelease)

\* A semantic version satisfies one requirement.
SpecSatisfies(requirement, version) ==
    LET lt == SpecLess(version, requirement.version)
        gt == SpecLess(requirement.version, version)
    IN  IF requirement.operator = <<"<">> THEN lt
        ELSE IF requirement.operator = <<"<", "=">> THEN ~gt
        ELSE IF requirement.operator = <<">">> THEN gt
        ELSE IF requirement.operator = <<">", "=">> THEN ~lt
        ELSE ~lt /\ ~gt

\* The semantic versions of a collection that satisfy every requirement.
SpecQualifying(versions, reqs) ==
    {v \in versions : v.is_semantic /\ \A r \in reqs : SpecSatisfies(r, v)}

\* The greatest versions of a collection of semantic versions under the
\* tie-break: among the stable ones when there is any, else among all.
SpecMaxOf(versions) ==
    LET stable_versions == {v \in versions : v.is_stable}
        pool == IF stable_versions # {} THEN stable_versions ELSE versions
    IN  {v \in pool : \A w \in pool : ~SpecLess(v, w)}

(***************************************************************************)
(* The claims                                                              *)
(***************************************************************************)
\* C1: when the project declares requirements and neither the preferred
\* version nor any installed or installable candidate satisfies all of them,
\* get_version returns no version: it does not fall back to the preferred
\* version, the maximum installed or the maximum installable version.  The
\* runs looked at are those where is_compatible_with agrees with the
\* specification's ordering on every version involved.
C1_IncompatibilityIsTerminal ==
    LET candidates == installed_versions \cup installable_versions
        involved   == candidates \cup ({preferred_version} \ {NoVersion})
    IN  (/\ pc = "done"
         /\ requirements # {}
         /\ pools_read = {"installed", "installable"}
         /\ \A r \in requirements : \A v \in involved :
                v.is_semantic => (IsCompatibleWith(r, v) <=> SpecSatisfies(r, v))
         /\ \/ preferred_version = NoVersion
            \/ \E r \in requirements : ~SpecSatisfies(r, preferred_version)
         /\ SpecQualifying(candidates, requirements) = {})
        => result.status = "none"

\* C2: whenever DBT_VERSION is set, get_version ends at the shell stage,
\* either returning the version parsed from the value or raising its error;
\* it never goes on to a source of lower precedence and never returns None.
C2_ShellOverrideIsUnconditional ==
    (pc = "done" /\ env_vars.set)
    => /\ result.stage = "shell"
       /\ result.status \in {"returned", "raised"}
       /\ result.status = "returned"
              => shell_version # NoVersion /\ result.version = shell_version

\* C3: with DBT_VERSION unset and a well-formed local version file, the
\* local version is returned at the local stage exactly when the file was
\* found and either no project directory is known or the file's path lies
\* inside it; a file found outside the project directory raises no error.
C3_ProjectRootGuard ==
    (/\ pc = "done"
     /\ ~env_vars.set
     /\ version_file # None
            => \/ IsPipSpecifier(Strip(lines_read.local))
               \/ IsBareVersion(Strip(lines_read.local)))
    => /\ (result.status = "returned" /\ result.stage = "local")
              <=> /\ version_file # None
                  /\ \/ ProjectDirectory = None
                     \/ StartsWith(version_file, ProjectDirectory)
       /\ (/\ version_file # None
           /\ ProjectDirectory # None
           /\ ~StartsWith(version_file, ProjectDirectory))
              => ~(result.status = "raised" /\ result.stage = "local")

\* C4: when the project declares requirements and the preferred version
\* satisfies every one of them, get_version returns that version with its
\* own source description, without listing either pool.
C4_PreferredPinIsHonoured ==
    (/\ pc = "done"
     /\ requirements # {}
     /\ preferred_version # NoVersion
     /\ \A r \in requirements : SpecSatisfies(r, preferred_version))
    => /\ result.status = "returned"
       /\ result.version = preferred_version
       /\ pools_read = {}

\* C5: in the project-constrained search with the preferred version absent
\* or incompatible, when an installed candidate is semantic and satisfies all
\* the requirements the result is the greatest such installed candidate, and
\* an installable candidate is returned only when no installed one qualifies.
C5_InstalledBeforeInstallable ==
    (/\ pc = "done"
     /\ requirements # {}
     /\ "installed" \in pools_read
     /\ \/ preferred_version = NoVersion
        \/ \E r \in requirements : ~SpecSatisfies(r, preferred_version))
    => LET qualifying == SpecQualifying(installed_versions, requirements)
       IN  /\ qualifying # {}
                  => /\ result.status = "returned"
                     /\ result.stage = "project_installed"
                     /\ result.version \in SpecMaxOf(qualifying)
           /\ result.stage = "project_installable" => qualifying = {}

\* C6: try_get_max_compatible_version returns None exactly when no candidate
\* is semantic and satisfies every requirement; otherwise it returns a
\* qualifying member of the collection than which no qualifying candidate of
\* the stability class the tie-break chooses is greater.
C6_MaxSatisfying ==
    fn_pc = "compatible_done"
    => LET qualifying == SpecQualifying(fn_obj.versions, fn_obj.requirements)
       IN  /\ fn_out.compatible = NoVersion <=> qualifying = {}
           /\ fn_out.compatible # NoVersion
                  => fn_out.compatible \in SpecMaxOf(qualifying)

\* C7: for a non-empty collection of semantic versions get_max_version
\* returns the greatest stable version when there is a stable one, and the
\* greatest version of the collection when there is none.
C7_MaxVersionTieBreak ==
    (/\ fn_pc \in {"max_done", "compatible_done"}
     /\ fn_obj.versions # {}
     /\ \A v \in fn_obj.versions : v.is_semantic)
    => /\ ~fn_out.max.raised
       /\ fn_out.max.version \in SpecMaxOf(fn_obj.versions)

\* C8: in both classes the Version of M.m.p followed by a prerelease tag,
\* with or without a hyphen, is less than the Version of M.m.p, and the
\* prerelease a1 is less than the prerelease b1 of the same triple.
C8_PrereleasePrecedesFinal ==
    fn_pc = "compared"
    => \A i, j \in 1..CompareCount :
          (/\ fn_obj.new[i].name = fn_obj.new[j].name
           /\ fn_obj.new[i].is_semantic
           /\ fn_obj.new[j].is_semantic
           /\ fn_obj.new[i].major_minor_patch = fn_obj.new[j].major_minor_patch
           /\ fn_obj.new[i].prerelease # None
           /\ \/ fn_in[j].version = fn_obj.new[j].major_minor_patch
              \/ /\ fn_obj.new[j].prerelease # None
                 /\ StrLess(fn_obj.new[i].prerelease, fn_obj.new[j].prerelease))
          => fn_out.new[i][j] < 0 /\ fn_out.old[i][j] < 0

\* C9: the adapter-aware Version orders by package name first, and two
\* semantic versions of one package whose (MAJOR, MINOR, PATCH) differ are
\* ordered as the tuples are ordered numerically.
C9_NumericSegmentOrdering ==
    fn_pc = "compared"
    => \A i, j \in 1..CompareCount :
          /\ StrLess(fn_obj.new[i].name, fn_obj.new[j].name)
                 => fn_out.new[i][j] < 0
          /\ (/\ fn_obj.new[i].name = fn_obj.new[j].name
              /\ fn_obj.new[i].is_semantic
              /\ fn_obj.new[j].is_semantic
              /\ TripleLess(NumericTriple(fn_obj.new[i].major_minor_patch),
                            NumericTriple(fn_obj.new[j].major_minor_patch)))
                 => fn_out.new[i][j] < 0

\* C10: over semantic Versions of one package, in both classes, exactly one
\* of a < b, a == b, a > b holds, a < b exactly when b > a, and a < b and
\* b < c imply a < c.
C10_OrderingIsTotalAndTransitive ==
    fn_pc = "compared"
    => \A i, j, k \in 1..CompareCount :
          (/\ fn_obj.new[i].name = fn_obj.new[j].name
           /\ fn_obj.new[j].name = fn_obj.new[k].name
           /\ fn_obj.new[i].is_semantic /\ fn_obj.old[i].is_semantic
           /\ fn_obj.new[j].is_semantic /\ fn_obj.old[j].is_semantic
           /\ fn_obj.new[k].is_semantic /\ fn_obj.old[k].is_semantic)
          => /\ fn_out.new[i][j] \in {-1, 0, 1}
             /\ fn_out.old[i][j] \in {-1, 0, 1}
             /\ fn_out.new[i][j] = 0 - fn_out.new[j][i]
             /\ fn_out.old[i][j] = 0 - fn_out.old[j][i]
             /\ (fn_out.new[i][j] < 0 /\ fn_out.new[j][k] < 0)
                    => fn_out.new[i][k] < 0
             /\ (fn_out.old[i][j] < 0 /\ fn_out.old[j][k] < 0)
                    => fn_out.old[i][k] < 0

\* C11: in both classes two Versions that compare equal have equal hashes.
C11_EqualityConsistentWithHash ==
    fn_pc = "hashed"
    => \A i, j \in 1..CompareCount :
          /\ fn_out.new[i][j] = 0 => fn_out.hash_new[i] = fn_out.hash_new[j]
          /\ fn_out.old[i][j] = 0 => fn_out.hash_old[i] = fn_out.hash_old[j]

\* C12: a semantic version of the older class with a prerelease tag, given
\* compact or hyphenated, renders as triple and tag for pip and as triple,
\* hyphen and tag for Homebrew, and the Version parsed from the rendering is
\* equal to the original.
C12_DualRenderingRoundTrip ==
    LET m == VersionMatch(fn_in.version)
    IN  (fn_pc = "reparsed" /\ m.matched /\ m.prerelease # None)
        => /\ fn_in.installer = "pip"
                  => fn_out.rendered = m.version \o m.prerelease
           /\ fn_in.installer = "homebrew"
                  => fn_out.rendered = m.version \o <<"-">> \o m.prerelease
           /\ fn_obj.parsed.is_semantic
           /\ fn_out.cmp = 0

\* C12 witness: the hyphenated 1.2.0-rc1 was rendered for pip as 1.2.0rc1 and
\* parsed back.
C12_Witness ==
    /\ fn_pc = "reparsed"
    /\ fn_in.version = <<"1", ".", "2", ".", "0", "-", "r", "c", "1">>
    /\ fn_in.installer = "pip"
    /\ fn_out.rendered = <<"1", ".", "2", ".", "0", "r", "c", "1">>
    /\ fn_out.cmp = 0

\* C13: with DBT_VERSION unset, well-formed version files, no local version
\* file inside the project or outside any project, no version returned from
\* the global file and no adapter type to be had, get_version returns None:
\* it raises nothing and reads neither the requirements nor a pool.
C13_AdapterKindGate ==
    (/\ pc = "done"
     /\ ~env_vars.set
     /\ \/ project_file = None
        \/ ProfilesFile \notin files
        \/ profile_type = None
     /\ \A line \in {lines_read.local, lines_read.global} \ {None} :
            IsPipSpecifier(Strip(line)) \/ IsBareVersion(Strip(line))
     /\ \/ FindFileFrom(WorkingDirectory, LOCAL_VERSION_FILE, files) = None
        \/ /\ ProjectDirectory # None
           /\ ~StartsWith(FindFileFrom(WorkingDirectory, LOCAL_VERSION_FILE, files),
                          ProjectDirectory)
     /\ ~(result.status = "returned" /\ result.stage = "global"))
    => /\ result.status = "none"
       /\ result.stage = "gate"
       /\ requirements = {}
       /\ pools_read = {}

\* C14: with DBT_VERSION unset, no local version file and a well-formed
\* global version file, the global version is returned at the global stage,
\* described as set by the global version file, exactly when no project
\* directory is known; with a project directory it is only the preferred
\* version of the later stages.
C14_GlobalMarkerStage ==
    (/\ pc = "done"
     /\ ~env_vars.set
     /\ FindFileFrom(WorkingDirectory, LOCAL_VERSION_FILE, files) = None
     /\ GlobalVersionFile \in files
     /\ lines_read.global # None
            => \/ IsPipSpecifier(Strip(lines_read.global))
               \/ IsBareVersion(Strip(lines_read.global)))
    => /\ (/\ result.status = "returned"
           /\ result.stage = "global"
           /\ result.version.source_description =
                  <<"set by global version file ">> \o GlobalVersionFile)
              <=> ProjectDirectory = None
       /\ (ProjectDirectory # None /\ result.stage \notin {"start", "gate"})
              => preferred_version = global_version /\ global_version # NoVersion

\* C15: with DBT_VERSION unset, the adapter type known, well-formed version
\* files and a project that declares no requirements, get_version returns
\* the version of the local version file when one is found, else the version
\* of the global version file when there is one, and lists no pool.
C15_UnconstrainedFallback ==
    LET local_file == FindFileFrom(WorkingDirectory, LOCAL_VERSION_FILE, files)
    IN  (/\ pc = "done"
         /\ ~env_vars.set
         /\ adapter_type # None
         /\ \A line \in {lines_read.local, lines_read.global} \ {None} :
                IsPipSpecifier(Strip(line)) \/ IsBareVersion(Strip(line))
         /\ lines_read.requirements.pieces = {}
         /\ local_file # None \/ GlobalVersionFile \in files)
        => /\ result.status = "returned"
           /\ pools_read = {}
           /\ local_file # None
                  => /\ result.version.pip_specifier = local_version.pip_specifier
                     /\ result.version.source_description =
                            <<"set by local version file ">> \o local_file
           /\ local_file = None
                  => /\ global_version # NoVersion
                     /\ result.version = global_version

\* C16: with DBT_VERSION unset, no version file, no requirements declared,
\* the adapter type known and a non-empty installed pool of semantic
\* versions, get_version returns a version equal to the greatest installed
\* one under the stable-first tie-break and does not list the installable
\* versions.
C16_MaxInstalledFallback ==
    (/\ pc = "done"
     /\ ~env_vars.set
     /\ adapter_type # None
     /\ FindFileFrom(WorkingDirectory, LOCAL_VERSION_FILE, files) = None
     /\ GlobalVersionFile \notin files
     /\ lines_read.requirements.pieces = {}
     /\ "installed" \in pools_read
     /\ installed_versions # {}
     /\ \A v \in installed_versions : v.is_semantic)
    => /\ result.status = "returned"
       /\ result.stage = "installed"
       /\ \E m \in SpecMaxOf(installed_versions) :
             result.version.pip_specifier = m.pip_specifier
       /\ "installable" \notin pools_read

\* C17: when get_version reaches the maximum-installable stage and no
\* version is installable, it raises DbtenvError; it raises no other
\* exception and returns nothing.
C17_EmptyInstallablePool ==
    (/\ pc = "done"
     /\ result.stage = "installable"
     /\ installable_versions = {})
    => /\ result.status = "raised"
       /\ result.error = "DbtenvError"

\* C18: every version get_version returns from the maximum-installed or the
\* maximum-installable stage is semantic.
C18_MaxSearchReturnsSemantic ==
    (/\ pc = "done"
     /\ result.status = "returned"
     /\ result.stage \in {"installed", "installable"})
    => result.version.is_semantic

\* C19: when the project's require-dbt-version holds a piece that does not
\* parse as a requirement (next to one that does), get_version ends in an
\* error; it never returns a version as though nothing had been declared.
C19_MalformedRequirementsPropagate ==
    (/\ pc = "done"
     /\ lines_read.requirements.read
     /\ \E r \in lines_read.requirements.pieces :
            ~RequirementMatch(Strip(r)).matched
     /\ \E r \in lines_read.requirements.pieces :
            RequirementMatch(Strip(r)).matched)
    => result.status = "raised"

\* The five operators the specification recognizes.
RecognizedOperators ==
    {<<"<">>, <<"<", "=">>, <<">">>, <<">", "=">>, <<"=", "=">>}

\* C20: a VersionRequirement that was constructed has one of the five
\* recognized operators, and the text left for its version does not begin
\* with an operator character: a text written with another operator
\* ('=1.0.0', '!=1.0.0', '~=1.0') produces no requirement.
C20_RequirementParsing ==
    (/\ fn_pc \in {"requirement_built", "requirement_evaluated"}
     /\ ~fn_obj.raised)
    => /\ fn_obj.requirement.operator \in RecognizedOperators
       /\ LET remainder == RequirementMatch(fn_in.requirement).version
          IN  remainder[1] \notin {"<", ">", "=", "!", "~"}

\* A pinned value that is neither a dbt-<kind>==<version> specifier nor a
\* bare version.
MalformedPin(value) == ~IsPipSpecifier(value) /\ ~IsBareVersion(value)

\* C21: a malformed DBT_VERSION value, or a malformed first line of the local
\* or global version file that get_version read, ends get_version in an
\* error; for a file, the DbtenvError of the stage that read it.
C21_MalformedPinStopsResolution ==
    pc = "done" =>
        /\ (env_vars.set /\ MalformedPin(env_vars.value))
               => /\ result.status = "raised"
                  /\ result.stage \in {"start", "shell"}
        /\ (lines_read.local # None /\ MalformedPin(Strip(lines_read.local)))
               => result = Raised("DbtenvError", "local")
        /\ (lines_read.global # None /\ MalformedPin(Strip(lines_read.global)))
               => result = Raised("DbtenvError", "global")

\* A malformed global version file was read after the shell and the local
\* stages gave nothing, and get_version raised.
C21_Witness ==
    /\ pc = "done"
    /\ lines_read.global # None
    /\ MalformedPin(Strip(lines_read.global))
    /\ shell_version = NoVersion
    /\ local_version = NoVersion
    /\ result = Raised("DbtenvError", "global")

\* C22: is_compatible_with(v) is true exactly when v stands in the relation
\* of the requirement's operator to the requirement's version under the
\* order of Version (_cmp); a requirement written without an operator accepts
\* exactly the versions equal to its version; '>=1.0.0' accepts 1.0.0 and
\* rejects 0.9.9.
C22_ConstraintEvaluation ==
    fn_pc = "requirement_evaluated" =>
        LET r  == fn_obj.requirement
            v  == VersionFromAdapter(r.version.adapter_type, fn_in.version, None)
            c  == VersionCmp(v, r.version)
            ok == fn_out.compatible
            GreaterEqualOne == <<">", "=", "1", ".", "0", ".", "0">>
        IN  /\ r.operator = <<"<">> => (ok <=> c < 0)
            /\ r.operator = <<"<", "=">> => (ok <=> c <= 0)
            /\ r.operator = <<">">> => (ok <=> c > 0)
            /\ r.operator = <<">", "=">> => (ok <=> c >= 0)
            /\ r.operator = <<"=", "=">> => (ok <=> c = 0)
            /\ RequirementMatch(fn_in.requirement).operator = None
                   => (ok <=> (v.name = r.version.name
                               /\ v.pypi_version = r.version.pypi_version))
            /\ (fn_in.requirement = GreaterEqualOne
                /\ fn_in.version = <<"1", ".", "0", ".", "0">>) => ok
            /\ (fn_in.requirement = GreaterEqualOne
                /\ fn_in.version = <<"0", ".", "9", ".", "9">>) => ~ok

\* '>=1.0.0' was evaluated on 0.9.9 and rejected it.
C22_Witness ==
    /\ fn_pc = "requirement_evaluated"
    /\ fn_in.requirement = <<">", "=", "1", ".", "0", ".", "0">>
    /\ fn_in.version = <<"0", ".", "9", ".", "9">>
    /\ ~fn_out.compatible

\* C23: every version get_version returns carries a source description.
C23_ProvenanceAlwaysPresent ==
    (pc = "done" /\ result.status = "returned")
    => result.version.source_description # None

\* C24: when get_version has ended, every Version of the installed and the
\* installable collections is as it was listed: its source and its source
\* description are still unset.
C24_CollectionsUnchanged ==
    pc = "done" =>
        \A v \in installed_versions \cup installable_versions :
            /\ v.source = None
            /\ v.source_description = None

\* directory is the working directory or one of its ancestors.
AncestorOrSelf(directory, working_directory) ==
    \/ directory = working_directory
    \/ directory = <<"/">>
    \/ StartsWith(working_directory, directory \o <<"/">>)

\* The files of the given name in the directories of the chain working
\* directory, parent, ..., root.
MarkersOnChain(working_directory, file_name, isfile) ==
    {f \in isfile : /\ BaseName(f) = file_name
                    /\ AncestorOrSelf(DirName(f), working_directory)}

\* C25: find_file_along_working_path terminates, and what it returns is the
\* file of the given name in the nearest directory of the chain working
\* directory, parent, ..., root (a path in an ancestor-or-self of the working
\* directory), or None when no directory of the chain holds the file.
C25_UpwardMarkerSearch ==
    /\ <>(fn_pc = "find_done")
    /\ [](fn_pc = "find_done" =>
            LET hits == MarkersOnChain(fn_in.working_directory,
                                       fn_in.file_name, fn_in.isfile)
                found == fn_out.file_path
            IN  IF hits = {} THEN found = None
                ELSE /\ found \in hits
                     /\ \A f \in hits : Len(f) <= Len(found))

\* The search passed the working directory, which does not hold the file,
\* and returned the file of an ancestor that is not the farthest one holding
\* it.
C25_Witness ==
    /\ fn_pc = "find_done"
    /\ fn_out.file_path # None
    /\ DirName(fn_out.file_path) # fn_in.working_directory
    /\ \E f \in fn_in.isfile :
          /\ BaseName(f) = fn_in.file_name
          /\ Len(f) < Len(fn_out.file_path)

\* C26: once main has handled --debug and --quiet, the logger's level is
\* DEBUG when debug is enabled (by an option or by DBTENV_DEBUG), otherwise
\* ERROR when quiet is enabled (by an option or by DBTENV_QUIET), otherwise
\* INFO.
C26_LoggingLevel ==
    fn_pc = "quiet_applied" =>
        LET debug_enabled ==
                \/ fn_in.args_debug.given
                \/ fn_in.args_subcommand_debug.given
                \/ fn_in.debug.set /\ StringIsTrue(fn_in.debug.value)
            quiet_enabled ==
                \/ fn_in.args_quiet.given
                \/ fn_in.args_subcommand_quiet.given
                \/ fn_in.quiet.set /\ StringIsTrue(fn_in.quiet.value)
        IN  fn_out.level = IF debug_enabled THEN "DEBUG"
                           ELSE IF quiet_enabled THEN "ERROR"
                           ELSE "INFO"

\* C27: two Versions that compare equal get the same virtual-environment
\* directory from PipDbt.
C27_EqualVersionsShareDirectory ==
    (fn_pc = "venv_located" /\ fn_out.equal)
    => fn_out.venv_directory[1] = fn_out.venv_directory[2]

\* The version's executable exists when the run begins.
InitiallyInstalled == fn_in.venv.isdir /\ fn_in.venv.dbt

\* C28: in ExecuteSubcommand.execute dbt is started only when bin/dbt of the
\* version exists; for a version that is not installed, without auto-install
\* a DbtenvError is raised and neither install nor dbt is started, with
\* auto-install the install attempt precedes the start, and dbt is not
\* started when the version is still not installed after the attempt.
C28_ExecuteRunsInstalledOnly ==
    fn_in.entry = "execute" =>
        /\ fn_out.started => (fn_obj.venv.isdir /\ fn_obj.venv.dbt)
        /\ (fn_out.started /\ ~InitiallyInstalled)
               => (fn_in.auto_install /\ fn_out.install_called)
        /\ (fn_pc = "finished" /\ ~InitiallyInstalled /\ ~fn_in.auto_install)
               => /\ fn_out.error = "DbtenvError"
                  /\ ~fn_out.started
                  /\ ~fn_out.install_called
        /\ (fn_pc = "finished" /\ fn_out.install_called
            /\ ~(fn_obj.venv.isdir /\ fn_obj.venv.dbt))
               => ~fn_out.started

\* A version that was not installed was installed by auto-install and dbt
\* was started afterwards.
C28_Witness ==
    /\ fn_pc = "finished"
    /\ fn_in.entry = "execute"
    /\ ~InitiallyInstalled
    /\ fn_in.auto_install
    /\ fn_out.install_called
    /\ fn_out.venv_created
    /\ fn_out.started

\* C29: when install raises after it created the virtual environment, the
\* directory is gone, the error is the DbtenvError of the failed step and
\* is_installed() is false afterwards; install without force on an installed
\* version raises DbtenvError and leaves the directory as it was.
C29_FailedInstallLeavesNothing ==
    /\ (fn_out.install_raised /\ fn_out.venv_created)
           => /\ fn_obj.venv = AbsentVenv
              /\ fn_out.error = "DbtenvError"
              /\ fn_out.checked => ~fn_out.installed_after
    /\ (fn_pc = "finished" /\ fn_in.entry = "install"
        /\ ~fn_in.force /\ InitiallyInstalled)
           => /\ fn_out.install_raised
              /\ fn_out.error = "DbtenvError"
              /\ ~fn_out.venv_created
              /\ fn_out.untouched
              /\ fn_obj.venv = fn_in.venv

\* An installed version was installed again with force, the installation
\* failed after the virtual environment was created, and is_installed() was
\* false afterwards.
C29_Witness ==
    /\ fn_pc = "finished"
    /\ fn_in.entry = "install"
    /\ fn_in.force
    /\ InitiallyInstalled
    /\ fn_out.install_raised
    /\ fn_out.venv_created
    /\ fn_out.checked
    /\ ~fn_out.installed_after

\* C30: main exits with 0 when the sub-command completes, with 1 when a
\* DbtenvError was raised or no sub-command was given, with 2 on a
\* KeyboardInterrupt, and with dbt's exit code when dbt ended with an exit
\* code other than 0, which Dbt.execute raises as DbtError carrying the code.
C30_ExitStatus ==
    /\ fn_pc = "exited" =>
          /\ fn_in.subcommand = "" => fn_out.exit_status = 1
          /\ fn_obj.kind = "returned" => fn_out.exit_status = 0
          /\ fn_obj.kind = "DbtenvError" => fn_out.exit_status = 1
          /\ fn_obj.kind = "KeyboardInterrupt" => fn_out.exit_status = 2
          /\ (fn_in.subcommand # "" /\ fn_in.behaviour = "dbt"
              /\ ~fn_in.interrupted /\ fn_in.return_code > 0)
                 => /\ fn_obj = Outcome("DbtError", fn_in.return_code)
                    /\ fn_out.exit_status = fn_in.return_code
    /\ (fn_pc = "handling" /\ fn_in.behaviour = "dbt" /\ ~fn_in.interrupted)
          => (fn_obj.kind = "DbtError" <=> fn_in.return_code # 0)

\* dbt ended with exit code 3 and main exited with 3.
C30_Witness ==
    /\ fn_pc = "exited"
    /\ fn_in.subcommand = "execute"
    /\ fn_in.behaviour = "dbt"
    /\ ~fn_in.interrupted
    /\ fn_in.return_code = 3
    /\ fn_out.exit_status = 3

=============================================================================
